---- MODULE Spec2Model ----
(***************************************************************************)
(* BudgetLens matching-and-learning engine: description normalisation,     *)
(* vendor pattern learning, transfer-pair detection and the scores they    *)
(* produce, modelled from backend/app/services.                            *)
(*                                                                         *)
(* Text is a sequence of one-character strings.  Money is an integer       *)
(* number of cents, a date an integer day number, and a confidence an      *)
(* integer number of thousandths (0.85 is 850).                            *)
(***************************************************************************)
EXTENDS Integers, Sequences, FiniteSets, TLC

VARIABLES
    frag, n1, n2, pcN,              \* normaliser: input, first and second pass
    kind, sin, sout, pcS,           \* scorers: which one, its input, its result
    vendors,                        \* Vendor rows, a vendor's id is its index
    txs,                            \* Transaction rows, by transaction id
    transfers,                      \* Transfer rows
    transfer_patterns,              \* TransferPattern rows, in creation order
    transfer_settings,              \* User.transfer_settings
    last,                           \* the last request and how it ended
    requests,                       \* how many requests were served
    procs,                          \* requests in flight, by worker
    category_rows                   \* Category rows, a category's id is its index

normVars == <<frag, n1, n2, pcN>>
scoreVars == <<kind, sin, sout, pcS>>
storeVars == <<vendors, txs, transfers, transfer_patterns, transfer_settings, last,
               requests, procs, category_rows>>
vars == <<frag, n1, n2, pcN, kind, sin, sout, pcS,
          vendors, txs, transfers, transfer_patterns, transfer_settings, last,
          requests, procs, category_rows>>

\* the parts of the state a specification does not use stay idle
NormIdle == frag = <<>> /\ n1 = <<>> /\ n2 = <<>> /\ pcN = "off"
ScoreIdle == kind = "none" /\ sin = <<>> /\ sout = <<>> /\ pcS = "off"
StoreIdle ==
    /\ vendors = <<>> /\ txs = <<>> /\ transfers = {} /\ transfer_patterns = <<>>
    /\ transfer_settings = <<>> /\ last = <<>> /\ requests = 0 /\ procs = <<>>
    /\ category_rows = <<>>

-----------------------------------------------------------------------------
(* Characters and strings                                                  *)

UpperChars == <<"A","B","C","D","E","F","G","H","I","J","K","L","M",
                "N","O","P","Q","R","S","T","U","V","W","X","Y","Z","Ü">>
LowerChars == <<"a","b","c","d","e","f","g","h","i","j","k","l","m",
                "n","o","p","q","r","s","t","u","v","w","x","y","z","ü">>
Digits == {"0","1","2","3","4","5","6","7","8","9"}

\* the characters of the regular-expression class [A-Z]
AZ == {UpperChars[i] : i \in 1..26}
IsSpace(c) == c = " "

\* str.upper() and str.lower(), one character
UpperSet == {UpperChars[i] : i \in 1..27}
LowerSet == {LowerChars[i] : i \in 1..27}
UpperMap == [c \in LowerSet |-> UpperChars[CHOOSE i \in 1..27 : LowerChars[i] = c]]
LowerMap == [c \in UpperSet |-> LowerChars[CHOOSE i \in 1..27 : UpperChars[i] = c]]
UpperChar(c) == IF c \in LowerSet THEN UpperMap[c] ELSE c
LowerChar(c) == IF c \in UpperSet THEN LowerMap[c] ELSE c
\* the characters of the regular-expression class \w
WordChars == UpperSet \cup LowerSet \cup Digits \cup {"_"}
Upper(s) == [i \in 1..Len(s) |-> UpperChar(s[i])]
Lower(s) == [i \in 1..Len(s) |-> LowerChar(s[i])]

\* s[a..b], empty when a > b
Slice(s, a, b) == IF a > b THEN <<>> ELSE SubSeq(s, a, b)

\* Python's "sub in s"
Contains(s, sub) ==
    \E i \in 1..(Len(s) - Len(sub) + 1) : SubSeq(s, i, i + Len(sub) - 1) = sub

RECURSIVE Concat(_)
\* ''.join(parts)
Concat(parts) == IF parts = <<>> THEN <<>> ELSE Head(parts) \o Concat(Tail(parts))

RECURSIVE JoinWith(_, _)
\* sep.join(parts)
JoinWith(parts, sep) ==
    IF parts = <<>> THEN <<>>
    ELSE IF Len(parts) = 1 THEN Head(parts)
    ELSE Head(parts) \o sep \o JoinWith(Tail(parts), sep)

RECURSIVE Strip(_)
\* str.strip() for blanks
Strip(s) ==
    IF s = <<>> THEN s
    ELSE IF IsSpace(Head(s)) THEN Strip(Tail(s))
    ELSE IF IsSpace(s[Len(s)]) THEN Strip(Slice(s, 1, Len(s) - 1))
    ELSE s

-----------------------------------------------------------------------------
(* CategorizationService.normalize_vendor                                  *)

NotDigit(c) == c \notin Digits
AZOrSpace(c) == c \in AZ \/ IsSpace(c)
NotSpace(c) == ~IsSpace(c)

location_words == << <<"S","T","R">>, <<"S","T","R","A","S","S","E">>,
                     <<"S","T","R","E","E","T">>, <<"S","T">>,
                     <<"A","V","E","N","U","E">>, <<"A","V","E">>,
                     <<"P","L","A","T","Z">>, <<"G","A","S","S","E">> >>

\* \b holds between position i-1 and i of s
Boundary(s, i) ==
    LET before == i > 1 /\ s[i - 1] \in WordChars
        after == i <= Len(s) /\ s[i] \in WordChars
    IN before # after

RECURSIVE RemoveWordFrom(_, _, _)
\* re.sub(rf'\b{w}\b', '', s), scanning from position i
RemoveWordFrom(s, w, i) ==
    IF i > Len(s) THEN <<>>
    ELSE IF /\ i + Len(w) - 1 <= Len(s)
            /\ SubSeq(s, i, i + Len(w) - 1) = w
            /\ Boundary(s, i)
            /\ Boundary(s, i + Len(w))
         THEN RemoveWordFrom(s, w, i + Len(w))
         ELSE <<s[i]>> \o RemoveWordFrom(s, w, i + 1)

RECURSIVE RemoveLocationWords(_, _)
\* the loop over location_words, from word k on
RemoveLocationWords(s, k) ==
    IF k > Len(location_words) THEN s
    ELSE RemoveLocationWords(RemoveWordFrom(s, location_words[k], 1), k + 1)

RECURSIVE RunEnd(_, _)
\* the last position of the run of [A-Z] that starts at i
RunEnd(s, i) == IF i < Len(s) /\ s[i + 1] \in AZ THEN RunEnd(s, i + 1) ELSE i

RECURSIVE FindAZWords(_, _)
\* re.findall(r'[A-Z]{2,}', s), scanning from position i
FindAZWords(s, i) ==
    IF i > Len(s) THEN <<>>
    ELSE IF s[i] \notin AZ THEN FindAZWords(s, i + 1)
    ELSE LET e == RunEnd(s, i)
         IN IF e - i + 1 >= 2
            THEN <<SubSeq(s, i, e)>> \o FindAZWords(s, e + 1)
            ELSE FindAZWords(s, e + 1)

RECURSIVE MainWords(_, _)
\* the loop "for word in words[:3]" with main_words = acc so far
MainWords(words, acc) ==
    IF words = <<>> THEN acc
    ELSE LET acc2 == IF Len(Head(words)) >= 3 THEN Append(acc, Head(words)) ELSE acc
         IN IF Len(Concat(acc2)) >= 8 THEN acc2 ELSE MainWords(Tail(words), acc2)

normalize_vendor(vendor_text) ==
    IF vendor_text = <<>> THEN <<>>
    ELSE LET upper == Upper(vendor_text)
             nodigits == SelectSeq(upper, NotDigit)
             letters == SelectSeq(nodigits, AZOrSpace)
             nolocation == RemoveLocationWords(letters, 1)
             normalized == SelectSeq(nolocation, NotSpace)
             words == FindAZWords(upper, 1)
             main_words == MainWords(Slice(words, 1, IF Len(words) < 3 THEN Len(words) ELSE 3), <<>>)
         IN IF Len(normalized) > 4 /\ words # <<>> /\ main_words # <<>>
            THEN Concat(main_words)
            ELSE normalized

-----------------------------------------------------------------------------
(* Confidence arithmetic.  A score is an integer number of thousandths.    *)
(* The transfer-pair score is a sum of IEEE-754 doubles; where that sum    *)
(* lands just below or just above the decimal value (0.35 + 0.3 + 0.15 +   *)
(* 0.1 is 0.8999999999999999) the score is one thousandth below or above.  *)

Min(a, b) == IF a < b THEN a ELSE b
Max(a, b) == IF a > b THEN a ELSE b
Abs(a) == IF a < 0 THEN 0 - a ELSE a

\* sums <<amount, date, keyword, words, account>> that the doubles round below
FloatBelow ==
    { <<0,30,0,5,10>>, <<0,30,15,0,0>>, <<0,30,15,0,10>>, <<0,30,15,5,0>>,
      <<0,15,15,5,10>>, <<40,30,0,0,10>>, <<35,30,0,0,0>>, <<35,30,0,0,10>>,
      <<35,30,0,5,10>>, <<35,30,15,0,0>>, <<35,30,15,0,10>>, <<35,5,0,0,0>>,
      <<35,5,0,5,0>>, <<35,5,0,5,10>>, <<35,5,15,0,0>>, <<35,5,15,0,10>>,
      <<25,5,0,5,10>>, <<25,5,15,0,0>>, <<25,5,15,0,10>>, <<25,5,15,5,0>>,
      <<10,25,0,0,10>>, <<10,25,0,5,0>> }
\* and those they round above
FloatAbove ==
    { <<0,15,0,5,10>>, <<0,5,0,0,10>>, <<0,5,15,0,10>>, <<40,25,0,5,0>>,
      <<40,25,15,5,0>>, <<40,25,15,5,10>>, <<40,15,0,5,0>>, <<40,15,0,5,10>>,
      <<40,15,15,0,0>>, <<40,15,15,5,0>>, <<40,15,15,5,10>>, <<35,15,15,5,0>>,
      <<25,30,0,5,0>>, <<25,30,0,5,10>>, <<25,30,15,0,0>>, <<25,30,15,5,0>>,
      <<25,30,15,5,10>>, <<25,25,15,5,0>>, <<25,15,15,5,0>>, <<25,15,15,5,10>>,
      <<10,30,15,5,0>>, <<10,30,15,5,10>>, <<10,5,0,0,0>>, <<10,5,0,5,10>>,
      <<10,5,15,0,0>>, <<10,5,15,5,0>>, <<10,5,15,5,10>> }

\* the double that the additions of _calculate_confidence leave, in thousandths
FloatSum(parts) ==
    10 * (parts[1] + parts[2] + parts[3] + parts[4] + parts[5])
      + (IF parts \in FloatBelow THEN -1 ELSE IF parts \in FloatAbove THEN 1 ELSE 0)

RECURSIVE SplitFrom(_, _, _)
\* str.split(): the blank-separated words of s from position i, cur the word so far
SplitFrom(s, i, cur) ==
    IF i > Len(s) THEN (IF cur = <<>> THEN <<>> ELSE <<cur>>)
    ELSE IF IsSpace(s[i])
         THEN (IF cur = <<>> THEN <<>> ELSE <<cur>>) \o SplitFrom(s, i + 1, <<>>)
         ELSE SplitFrom(s, i + 1, Append(cur, s[i]))
Split(s) == SplitFrom(s, 1, <<>>)
SeqToSet(q) == {q[i] : i \in 1..Len(q)}

-----------------------------------------------------------------------------
(* TransferService._is_potential_transfer_pair and _calculate_confidence.  *)
(* A transaction is [amount, date, description, account_id]; account_id 0  *)
(* is None, and accts maps an account id to its account type.              *)

\* variant: the day difference read without the absolute value
DateDiffSigned(tx1, tx2) == tx1.date - tx2.date

DateDiff(tx1, tx2) == Abs(tx1.date - tx2.date)

is_potential_transfer_pair(tx1, tx2) ==
    LET amount_diff == Abs(Abs(tx1.amount) - Abs(tx2.amount))
        max_amount == Max(Abs(tx1.amount), Abs(tx2.amount))
    IN IF ~((tx1.amount > 0 /\ tx2.amount < 0) \/ (tx1.amount < 0 /\ tx2.amount > 0))
       THEN FALSE
       ELSE IF tx1.account_id = 0 \/ tx2.account_id = 0 \/ tx1.account_id = tx2.account_id
       THEN FALSE
       ELSE IF DateDiff(tx1, tx2) > 7
       THEN FALSE
       ELSE IF max_amount > 0 /\ (amount_diff <= 200 \/ amount_diff * 100 <= 5 * max_amount)
       THEN TRUE
       ELSE IF max_amount > 0 /\ amount_diff * 100 > 20 * max_amount
       THEN FALSE
       ELSE TRUE

transfer_keywords ==
    { <<"t","r","a","n","s","f","e","r">>,
      <<"ü","b","e","r","w","e","i","s","u","n","g">>,
      <<"v","i","r","e","m","e","n","t">>,
      <<"i","n","t","e","r","n","a","l">>,
      <<"z","w","i","s","c","h","e","n">> }

type_pairs == { <<"CHECKING", "SAVINGS">>, <<"SAVINGS", "CHECKING">>,
                <<"CHECKING", "INVESTMENT">>, <<"INVESTMENT", "CHECKING">> }

AmountScore(tx1, tx2) ==
    LET amount_diff == Abs(Abs(tx1.amount) - Abs(tx2.amount))
        max_amount == Max(Abs(tx1.amount), Abs(tx2.amount))
    IN IF max_amount > 0
       THEN IF amount_diff = 0 THEN 40
            ELSE IF amount_diff * 100 <= max_amount THEN 35
            ELSE IF amount_diff * 100 <= 5 * max_amount THEN 25
            ELSE 10
       ELSE 0

DateScore(tx1, tx2) ==
    LET date_diff == DateDiff(tx1, tx2)
    IN IF date_diff = 0 THEN 30
       ELSE IF date_diff = 1 THEN 25
       ELSE IF date_diff <= 3 THEN 15
       ELSE 5

KeywordScore(tx1, tx2) ==
    LET desc1 == Lower(tx1.description)
        desc2 == Lower(tx2.description)
    IN IF \E keyword \in transfer_keywords : Contains(desc1, keyword) \/ Contains(desc2, keyword)
       THEN 15 ELSE 0

CommonWordsScore(tx1, tx2) ==
    LET desc1 == Lower(tx1.description)
        desc2 == Lower(tx2.description)
    IN IF desc1 # <<>> /\ desc2 # <<>>
          /\ Cardinality(SeqToSet(Split(desc1)) \cap SeqToSet(Split(desc2))) >= 2
       THEN 5 ELSE 0

AccountTypeScore(accts, tx1, tx2) ==
    IF tx1.account_id \in DOMAIN accts /\ tx2.account_id \in DOMAIN accts
    THEN LET account_types == <<accts[tx1.account_id], accts[tx2.account_id]>>
         IN IF account_types \in type_pairs
               \/ <<account_types[2], account_types[1]>> \in type_pairs
            THEN 10 ELSE 0
    ELSE 0

calculate_confidence(accts, tx1, tx2) ==
    LET confidence == FloatSum(<<AmountScore(tx1, tx2), DateScore(tx1, tx2),
                                 KeywordScore(tx1, tx2), CommonWordsScore(tx1, tx2),
                                 AccountTypeScore(accts, tx1, tx2)>>)
    IN Max(0, Min(confidence, 1000))

-----------------------------------------------------------------------------
(* rapidfuzz fuzz.ratio: the normalised indel similarity 2*LCS/(|a|+|b|)   *)

RECURSIVE LcsRow(_, _, _, _)
\* one row of the LCS table: prev is the row above, cur the row so far
\* (cur[k] is column k-1), c the character of this row
LcsRow(prev, c, b, cur) ==
    LET j == Len(cur)
    IN IF j > Len(b) THEN cur
       ELSE LcsRow(prev, c, b,
                   Append(cur, IF c = b[j] THEN prev[j] + 1
                               ELSE Max(prev[j + 1], cur[j])))

RECURSIVE LcsRows(_, _, _, _)
\* the rows from row i on; prev (never empty) is computed before the next row
LcsRows(a, b, i, prev) ==
    IF i > Len(a) \/ Len(prev) = 0 THEN prev
    ELSE LcsRows(a, b, i + 1, LcsRow(prev, a[i], b, <<0>>))

LcsLen(a, b) == LcsRows(a, b, 1, [k \in 1..(Len(b) + 1) |-> 0])[Len(b) + 1]

\* fuzz.ratio(a, b) / 100.0, in thousandths (rounded down)
Similarity(a, b) ==
    IF Len(a) + Len(b) = 0 THEN 1000
    ELSE (2000 * LcsLen(a, b)) \div (Len(a) + Len(b))

-----------------------------------------------------------------------------
(* TransferLearningService._calculate_pattern_confidence.  A pattern is    *)
(* [typical_amount, amount_tolerance, max_days_between,                    *)
(* description_pattern, times_matched]; typical_amount 0 is unset.         *)

StartsWith(s, prefix) == Len(s) >= Len(prefix) /\ SubSeq(s, 1, Len(prefix)) = prefix

RECURSIVE SplitOnFrom(_, _, _, _)
\* str.split(ch): the pieces of s between occurrences of the character ch
SplitOnFrom(s, ch, i, cur) ==
    IF i > Len(s) THEN <<cur>>
    ELSE IF s[i] = ch THEN <<cur>> \o SplitOnFrom(s, ch, i + 1, <<>>)
    ELSE SplitOnFrom(s, ch, i + 1, Append(cur, s[i]))
SplitOn(s, ch) == SplitOnFrom(s, ch, 1, <<>>)

\* s.split(":", 1)[1]
AfterColon(s) ==
    LET i == CHOOSE k \in 1..Len(s) : s[k] = ":" /\ \A m \in 1..(k - 1) : s[m] # ":"
    IN Slice(s, i + 1, Len(s))

KeywordsTag == <<"k","e","y","w","o","r","d","s",":">>
PrefixTag == <<"p","r","e","f","i","x",":">>

\* _match_description_pattern, in thousandths
match_description_pattern(pattern, desc1, desc2) ==
    IF pattern = <<>> THEN 500
    ELSE IF StartsWith(pattern, KeywordsTag)
    THEN LET keywords == SeqToSet(SplitOn(AfterColon(pattern), ","))
         IN IF \E d \in {desc1, desc2} : \E keyword \in keywords : Contains(Lower(d), keyword)
            THEN 1000 ELSE 0
    ELSE IF StartsWith(pattern, PrefixTag)
    THEN IF \E d \in {desc1, desc2} : Contains(Lower(d), AfterColon(pattern))
         THEN 1000 ELSE 0
    ELSE 500

\* The amount part multiplies typical_amount, a Decimal (a Numeric column), by
\* amount_tolerance, a float (a Float column): Python raises TypeError, so a
\* pattern with a typical amount yields no score at all.
calculate_pattern_confidence(pattern, from_tx, to_tx) ==
    IF pattern.typical_amount # 0
    THEN [raised |-> TRUE, confidence |-> 0]
    ELSE LET date_diff == DateDiff(from_tx, to_tx)
             date_part ==
                 IF date_diff = 0 THEN 300
                 ELSE IF date_diff <= pattern.max_days_between
                 THEN (300 * (pattern.max_days_between - date_diff))
                          \div pattern.max_days_between
                 ELSE 0
             desc_part ==
                 IF pattern.description_pattern # <<>>
                 THEN (200 * match_description_pattern(pattern.description_pattern,
                           from_tx.description, to_tx.description)) \div 1000
                 ELSE 0
             success_part ==
                 IF pattern.times_matched > 0
                 THEN Min(pattern.times_matched * 10, 100)
                 ELSE 0
         IN [raised |-> FALSE,
             confidence |-> Min(date_part + desc_part + success_part, 1000)]

-----------------------------------------------------------------------------
(* VendorIntelligenceService: n-gram windows and hierarchy confidence      *)

business_types ==
    << [biz_type |-> "retail", keywords |->
          << <<"s","h","o","p">>,
             <<"s","t","o","r","e">>,
             <<"m","a","r","k","e","t">>,
             <<"m","a","r","t">>,
             <<"r","e","t","a","i","l">> >>],
       [biz_type |-> "food", keywords |->
          << <<"r","e","s","t","a","u","r","a","n","t">>,
             <<"c","a","f","e">>,
             <<"b","i","s","t","r","o">>,
             <<"p","i","z","z","a">>,
             <<"b","u","r","g","e","r">>,
             <<"k","e","b","a","b">>,
             <<"s","u","s","h","i">> >>],
       [biz_type |-> "transport", keywords |->
          << <<"b","u","s">>,
             <<"t","r","a","i","n">>,
             <<"t","a","x","i">>,
             <<"u","b","e","r">>,
             <<"l","y","f","t">>,
             <<"t","r","a","n","s","p","o","r","t">>,
             <<"m","e","t","r","o">> >>],
       [biz_type |-> "fuel", keywords |->
          << <<"s","h","e","l","l">>,
             <<"b","p">>,
             <<"e","s","s","o">>,
             <<"t","e","x","a","c","o">>,
             <<"m","o","b","i","l">>,
             <<"t","a","n","k","s","t","e","l","l","e">>,
             <<"g","a","s">> >>],
       [biz_type |-> "bank", keywords |->
          << <<"b","a","n","k">>,
             <<"a","t","m">>,
             <<"s","p","a","r","k","a","s","s","e">>,
             <<"c","r","e","d","i","t">>,
             <<"d","e","b","i","t">> >>],
       [biz_type |-> "pharmacy", keywords |->
          << <<"p","h","a","r","m","a","c","y">>,
             <<"a","p","o","t","h","e","k","e">>,
             <<"m","e","d","i","c","a","l">>,
             <<"d","r","o","g","e","r","i","e">> >>],
       [biz_type |-> "telecom", keywords |->
          << <<"t","e","l","e","k","o","m">>,
             <<"v","o","d","a","f","o","n","e">>,
             <<"o","r","a","n","g","e">>,
             <<"s","w","i","s","s","c","o","m">> >>] >>

location_noise ==
    { <<"s","t","r","e","e","t">>,
      <<"s","t","r">>,
      <<"s","t","r","a","s","s","e">>,
      <<"a","v","e","n","u","e">>,
      <<"a","v","e">>,
      <<"r","o","a","d">>,
      <<"r","d">>,
      <<"p","l","a","t","z">>,
      <<"g","a","s","s","e">>,
      <<"h","a","u","p","t","b","a","h","n","h","o","f">>,
      <<"b","a","h","n","h","o","f">>,
      <<"s","t","a","t","i","o","n">>,
      <<"a","i","r","p","o","r","t">>,
      <<"f","l","u","g","h","a","f","e","n">>,
      <<"z","e","n","t","r","u","m">>,
      <<"c","e","n","t","e","r">>,
      <<"n","o","r","t","h">>,
      <<"s","o","u","t","h">>,
      <<"e","a","s","t">>,
      <<"w","e","s","t">>,
      <<"n","o","r","d">>,
      <<"s","ü","d">>,
      <<"o","s","t">>,
      <<"w","e","s","t">>,
      <<"c","i","t","y">>,
      <<"s","t","a","d","t">>,
      <<"d","o","w","n","t","o","w","n">>,
      <<"u","p","t","o","w","n">>,
      <<"m","a","l","l">>,
      <<"s","h","o","p","p","i","n","g">>,
      <<"c","e","n","t","e","r">> }

WordOrSpace(c) == IF c \in WordChars \/ IsSpace(c) THEN c ELSE " "
LongEnough(w) == Len(w) >= 2

\* is word one of the keywords of some business type
IsBusinessWord(word) ==
    \E k \in 1..Len(business_types) : word \in SeqToSet(business_types[k].keywords)

\* _calculate_ngram_confidence(words, position, ...), in thousandths
\* variant: the boosts and penalties summed without the final clamp
NgramConfidenceUnclamped(words, position) ==
    500 + (IF position = 0 THEN 300 ELSE 0) + Min(Len(words) * 100, 300)
        + Min(100 * Cardinality({i \in 1..Len(words) :
                                    Lower(words[i]) \notin location_noise}), 200)
        + Min(100 * Cardinality({i \in 1..Len(words) :
                                    IsBusinessWord(Lower(words[i]))}), 200)

calculate_ngram_confidence(words, position) ==
    LET position_boost == IF position = 0 THEN 300 ELSE 0
        length_boost == Min(Len(words) * 100, 300)
        non_location_boost ==
            100 * Cardinality({i \in 1..Len(words) : Lower(words[i]) \notin location_noise})
        business_boost ==
            100 * Cardinality({i \in 1..Len(words) : IsBusinessWord(Lower(words[i]))})
        short_penalty ==
            IF Len(words) = 1 /\ Len(words[1]) < 4 /\ position > 0 THEN 200 ELSE 0
        location_penalty ==
            IF \A i \in 1..Len(words) : Lower(words[i]) \in location_noise THEN 400 ELSE 0
        base_confidence == 500 + position_boost + length_boost
                               + Min(non_location_boost, 200) + Min(business_boost, 200)
                               - short_penalty - location_penalty
    IN Max(0, Min(1000, base_confidence))

RECURSIVE FirstBusinessType(_, _)
\* the first business type one of whose keywords occurs in word_str, or "none"
FirstBusinessType(word_str, k) ==
    IF k > Len(business_types) THEN "none"
    ELSE IF \E keyword \in SeqToSet(business_types[k].keywords) : Contains(word_str, keyword)
    THEN business_types[k].biz_type
    ELSE FirstBusinessType(word_str, k + 1)

\* _classify_pattern_type
classify_pattern_type(words) ==
    LET word_str == Lower(JoinWith(words, <<" ">>))
        biz == FirstBusinessType(word_str, 1)
    IN IF biz # "none" THEN <<"business", biz>>
       ELSE IF \E i \in 1..Len(words) : Lower(words[i]) \in location_noise THEN <<"location">>
       ELSE IF Len(words) = 1 /\ Len(words[1]) >= 4 THEN <<"brand_candidate">>
       ELSE IF Len(words) > 1 THEN <<"composite_brand">>
       ELSE <<"generic">>

RECURSIVE InsertByConfidence(_, _)
\* g placed after every element of the sorted list whose confidence is >= its own
InsertByConfidence(sorted, g) ==
    IF sorted = <<>> THEN <<g>>
    ELSE IF Head(sorted).confidence >= g.confidence
    THEN <<Head(sorted)>> \o InsertByConfidence(Tail(sorted), g)
    ELSE <<g>> \o sorted

RECURSIVE SortByConfidence(_, _)
\* list.sort(key=confidence, reverse=True): stable, highest first
SortByConfidence(grams, acc) ==
    IF grams = <<>> THEN acc
    ELSE SortByConfidence(Tail(grams), InsertByConfidence(acc, Head(grams)))

RECURSIVE Windows(_, _, _, _)
\* the windows of n words from position i on, then those of n+1 words, up to top
Windows(words, n, i, top) ==
    IF n > top THEN <<>>
    ELSE IF i > Len(words) - n THEN Windows(words, n + 1, 0, top)
    ELSE LET gram == SubSeq(words, i + 1, i + n)
         IN << [pattern |-> JoinWith(gram, <<" ">>),
                confidence |-> calculate_ngram_confidence(gram, i),
                type |-> classify_pattern_type(gram),
                length |-> n,
                position |-> i] >> \o Windows(words, n, i + 1, top)

generate_vendor_ngrams(vendor_text, min_length, max_length) ==
    IF vendor_text = <<>> THEN <<>>
    ELSE LET lowered == Lower(vendor_text)
             cleaned == [i \in 1..Len(lowered) |-> WordOrSpace(lowered[i])]
             words == SelectSeq(Split(cleaned), LongEnough)
         IN IF words = <<>> THEN <<>>
            ELSE SortByConfidence(
                     Windows(words, min_length, 0, Min(Len(words), max_length)), <<>>)

\* _calculate_hierarchy_confidence, in thousandths
calculate_hierarchy_confidence(parent_candidate, child_name) ==
    LET parent_words == SeqToSet(Split(Lower(parent_candidate)))
        child_words == SeqToSet(Split(Lower(child_name)))
    IN IF parent_words = {} THEN 0
       ELSE LET overlap == (600 * Cardinality(parent_words \cap child_words))
                               \div Cardinality(parent_words)
                similar == (3 * Similarity(Lower(parent_candidate), Lower(child_name))) \div 10
                shorter == IF Len(parent_candidate) < Len(child_name) THEN 100 ELSE 0
            IN Min(1000, overlap + similar + shorter)

-----------------------------------------------------------------------------
(* The scorers applied to inputs drawn from small sets                     *)

MaxDay == 8
MaxGramWords == 3

DescTransferOut == <<"t","r","a","n","s","f","e","r"," ","o","u","t">>
DescTransferOutCap == <<"T","r","a","n","s","f","e","r"," ","o","u","t">>
DescCoffee == <<"c","o","f","f","e","e">>

ScoreAccountTypes == {"CHECKING", "SAVINGS", "CREDIT_CARD"}

PairFirst ==
    [amount : {-10000, 10000, 0, -1000},
     date : {0, MaxDay},
     description : {DescTransferOut, <<>>},
     account_id : {1}]
PairSecond ==
    [amount : {10000, 9950, 9600, 7000, 900, 0, -10000},
     date : {0, 1, 3, MaxDay},
     description : {DescTransferOutCap, DescCoffee, <<>>},
     account_id : {0, 1, 2}]
PairAccounts ==
    {a \in [{1, 2} -> ScoreAccountTypes] : a[2] # "CREDIT_CARD"}
PairInputs == [tx1 : PairFirst, tx2 : PairSecond, accts : PairAccounts]

PatternInputs ==
    [pattern : [typical_amount : {0, 10000},
                amount_tolerance : {-5, 0, 5},
                max_days_between : {-1, 0, 3},
                description_pattern :
                    {<<>>,
                     <<"k","e","y","w","o","r","d","s",":","t","r","a","n","s","f","e","r">>,
                     <<"p","r","e","f","i","x",":","c","o","f","f","e","e">>},
                times_matched : {0, 1, 20}],
     from_tx : [amount : {-10000, 0}, date : {0}, account_id : {1},
                description : {DescTransferOut, <<>>}],
     to_tx : [amount : {10000}, date : {0, 1, MaxDay}, account_id : {2},
              description : {DescCoffee, <<>>}]]

\* the description of the n-gram example
KkioskText == <<"k","k","i","o","s","k"," ","z","ü","r","i","c","h"," ",
                "h","a","u","p","t","b","a","h","n","h","o","f">>

GramWords == { <<"k","k","i","o","s","k">>, <<"h","a","u","p","t","b","a","h","n","h","o","f">>,
               <<"b","a","n","k">>, <<"c","i","t","y">>, <<"b","p">>, <<"x">> }

RECURSIVE GramTexts(_)
\* the texts of exactly n blank-separated words
GramTexts(n) ==
    IF n = 0 THEN {<<>>}
    ELSE IF n = 1 THEN GramWords
    ELSE {f \o <<" ">> \o w : f \in GramTexts(n - 1), w \in GramWords}

GramInputs ==
    [text : UNION {GramTexts(n) : n \in 0..MaxGramWords} \cup {KkioskText},
     min_length : {1, 2}]

HierarchyNames == { <<>>, <<"l","i","d","l">>, <<"L","i","d","l"," ","Z","H">>,
                    <<"c","o","o","p">>, <<"l","i","d","l"," ","c","o","o","p">> }
HierarchyInputs == [parent : HierarchyNames, child : HierarchyNames]

InitScore ==
    /\ NormIdle
    /\ StoreIdle
    /\ \/ kind = "pair" /\ sin \in PairInputs
       \/ kind = "pattern" /\ sin \in PatternInputs
       \/ kind = "ngram" /\ sin \in GramInputs
       \/ kind = "hierarchy" /\ sin \in HierarchyInputs
    /\ sout = <<>>
    /\ pcS = "input"

\* the candidate filter and the pair score, asked in both argument orders
ScorePair ==
    /\ pcS = "input" /\ kind = "pair"
    /\ sout' = [filter_ab |-> is_potential_transfer_pair(sin.tx1, sin.tx2),
                filter_ba |-> is_potential_transfer_pair(sin.tx2, sin.tx1),
                confidence_ab |-> calculate_confidence(sin.accts, sin.tx1, sin.tx2),
                confidence_ba |-> calculate_confidence(sin.accts, sin.tx2, sin.tx1)]
    /\ pcS' = "scored"
    /\ UNCHANGED <<kind, sin>>
    /\ UNCHANGED normVars
    /\ UNCHANGED storeVars

ScorePattern ==
    /\ pcS = "input" /\ kind = "pattern"
    /\ sout' = calculate_pattern_confidence(sin.pattern, sin.from_tx, sin.to_tx)
    /\ pcS' = "scored"
    /\ UNCHANGED <<kind, sin>>
    /\ UNCHANGED normVars
    /\ UNCHANGED storeVars

ScoreNgrams ==
    /\ pcS = "input" /\ kind = "ngram"
    /\ sout' = generate_vendor_ngrams(sin.text, sin.min_length, 4)
    /\ pcS' = "scored"
    /\ UNCHANGED <<kind, sin>>
    /\ UNCHANGED normVars
    /\ UNCHANGED storeVars

ScoreHierarchy ==
    /\ pcS = "input" /\ kind = "hierarchy"
    /\ sout' = [confidence |-> calculate_hierarchy_confidence(sin.parent, sin.child),
                similarity |-> Similarity(Lower(sin.parent), Lower(sin.child))]
    /\ pcS' = "scored"
    /\ UNCHANGED <<kind, sin>>
    /\ UNCHANGED normVars
    /\ UNCHANGED storeVars

NextScore == ScorePair \/ ScorePattern \/ ScoreNgrams \/ ScoreHierarchy

SpecScore == InitScore /\ [][NextScore]_vars

InUnit(c) == 0 <= c /\ c <= 1000

\* C8: every confidence score the engine produces lies within [0,1]: the
\* transfer-pair score, the pattern-application score, the n-gram score, the
\* hierarchy-link score and the string similarity behind vendor matches, also
\* for equal amounts, identical dates, empty descriptions and patterns whose
\* tolerance or max-days-between is zero or negative.
C8_ScoresInUnitInterval ==
    pcS = "scored" =>
        /\ kind = "pair" => InUnit(sout.confidence_ab) /\ InUnit(sout.confidence_ba)
        /\ kind = "pattern" => (~sout.raised => InUnit(sout.confidence))
        /\ kind = "ngram" => \A i \in 1..Len(sout) : InUnit(sout[i].confidence)
        /\ kind = "hierarchy" => InUnit(sout.confidence) /\ InUnit(sout.similarity)

\* an n-gram window whose boosts add up to more than 1 before the clamp, a pair
\* of equal amounts on the same day with empty descriptions, and a pattern with
\* max-days-between zero that did yield a score
C8_Witness_Ngram ==
    /\ pcS = "scored" /\ kind = "ngram"
    /\ \E i \in 1..Len(sout) : sout[i].confidence = 1000 /\ sout[i].length >= 2
C8_Witness ==
    \/ C8_Witness_Ngram
    \/ /\ pcS = "scored" /\ kind = "pattern" /\ ~sout.raised
       /\ sin.pattern.max_days_between <= 0 /\ sin.to_tx.date > 0

\* C9: the candidate filter and the transfer-pair confidence give the same
\* result for (A, B) as for (B, A).
C9_PairScoreSymmetric ==
    pcS = "scored" /\ kind = "pair" =>
        /\ sout.filter_ab = sout.filter_ba
        /\ sout.confidence_ab = sout.confidence_ba

\* a pair the filter accepts, scored with the account-type bonus, where the two
\* transactions differ in every field
C9_Witness ==
    /\ pcS = "scored" /\ kind = "pair"
    /\ sout.filter_ab /\ sout.confidence_ab >= 900
    /\ sin.tx1.date # sin.tx2.date
    /\ sin.tx1.description # sin.tx2.description
    /\ sin.accts[1] # sin.accts[2]

\* C19: with the default lengths, the n-grams of "kkiosk zürich hauptbahnhof"
\* are a list whose first element is "kkiosk" at position 0 with type
\* brand_candidate, ranked above "hauptbahnhof".
C19_KkioskRankedFirst ==
    (pcS = "scored" /\ kind = "ngram" /\ sin.text = KkioskText /\ sin.min_length = 2)
        => /\ sout # <<>>
           /\ sout[1].pattern = <<"k","k","i","o","s","k">>
           /\ sout[1].position = 0
           /\ sout[1].type = <<"brand_candidate">>
           /\ \A i \in DOMAIN sout :
                  sout[i].pattern = <<"h","a","u","p","t","b","a","h","n","h","o","f">>
                      => i > 1

-----------------------------------------------------------------------------
(* The normaliser applied twice to a vendor fragment                       *)

MaxTokens == 4

Tokens == { <<"L","i","d","l">>, <<"Z","U","E","R","I","C","H">>,
            <<"0","8","0","0">>, <<"A","V","E">>, <<"A","B">>, <<"c","d">> }

RECURSIVE Fragments(_)
\* the fragments of exactly n blank-separated tokens
Fragments(n) ==
    IF n = 1 THEN Tokens
    ELSE {f \o <<" ">> \o t : f \in Fragments(n - 1), t \in Tokens}

InitNorm ==
    /\ ScoreIdle
    /\ StoreIdle
    /\ frag \in UNION {Fragments(n) : n \in 1..MaxTokens}
    /\ n1 = <<>>
    /\ n2 = <<>>
    /\ pcN = "input"

NormalizeOnce ==
    /\ pcN = "input"
    /\ n1' = normalize_vendor(frag)
    /\ pcN' = "once"
    /\ UNCHANGED <<frag, n2>>
    /\ UNCHANGED scoreVars
    /\ UNCHANGED storeVars

NormalizeTwice ==
    /\ pcN = "once"
    /\ n2' = normalize_vendor(n1)
    /\ pcN' = "twice"
    /\ UNCHANGED <<frag, n1>>
    /\ UNCHANGED scoreVars
    /\ UNCHANGED storeVars

NextNorm == NormalizeOnce \/ NormalizeTwice

SpecNorm == InitNorm /\ [][NextNorm]_vars

\* C10: normalize is idempotent: normalize(normalize(x)) = normalize(x) for
\* every vendor fragment x, also when the first kept token is a noise word.
C10_NormalizeIdempotent == pcN = "twice" => n2 = n1

\* the spec's example: "Lidl Zuerich 0800 Zuerich" normalises to "LIDLZUERICH"
NormExampleHolds ==
    frag = <<"L","i","d","l"," ","Z","U","E","R","I","C","H"," ","0","8","0","0">>
         /\ pcN = "once"
    => n1 = <<"L","I","D","L","Z","U","E","R","I","C","H">>

-----------------------------------------------------------------------------
(* CategorizationService over the stored rows.  A category id, a vendor id *)
(* or a transaction id of 0 is None or unknown, a confidence_score of -1   *)
(* is NULL.                                                                *)

\* the Category rows a user starts with, a few of
\* CategoryService.create_default_categories; parent_category_id 0 is NULL
categories ==
    << [name |-> "Food", category_type |-> "EXPENSE", parent_category_id |-> 0,
        allow_auto_learning |-> TRUE],
       [name |-> "Personal", category_type |-> "EXPENSE", parent_category_id |-> 0,
        allow_auto_learning |-> TRUE],
       [name |-> "TWINT Payments", category_type |-> "MANUAL_REVIEW",
        parent_category_id |-> 0, allow_auto_learning |-> FALSE] >>
CategoryIds == DOMAIN categories

\* str.find(c) + 1
FirstIndexOf(s, c) ==
    IF \E i \in 1..Len(s) : s[i] = c
    THEN CHOOSE i \in 1..Len(s) : s[i] = c /\ \A j \in 1..(i - 1) : s[j] # c
    ELSE 0

extract_vendor_from_description(description) ==
    LET comma == FirstIndexOf(description, ",")
        vendor_part == Strip(Slice(description, comma + 1, Len(description)))
    IN IF comma > 0 /\ Len(vendor_part) > 3 THEN vendor_part ELSE Strip(description)

manual_review_patterns ==
    { <<"t","w","i","n","t">>,
      <<"a","t","m">>,
      <<"c","a","s","h"," ","w","i","t","h","d","r","a","w","a","l">>,
      <<"g","e","l","d","a","u","t","o","m","a","t">>,
      <<"b","a","n","c","o","m","a","t">>,
      <<"t","r","a","n","s","f","e","r">>,
      <<"ü","b","e","r","w","e","i","s","u","n","g">>,
      <<"v","i","r","e","m","e","n","t">>,
      <<"p","a","y","m","e","n","t"," ","o","r","d","e","r">>,
      <<"s","t","a","n","d","i","n","g"," ","o","r","d","e","r">>,
      <<"d","a","u","e","r","a","u","f","t","r","a","g">>,
      <<"o","r","d","r","e"," ","p","e","r","m","a","n","e","n","t">> }

is_manual_review_pattern(description) ==
    \E pattern \in manual_review_patterns : Contains(Lower(description), pattern)

category_mapping ==
    << [pattern |-> <<"t","w","i","n","t">>, name |-> "TWINT Payments"],
       [pattern |-> <<"a","t","m">>, name |-> "ATM Withdrawals"],
       [pattern |-> <<"g","e","l","d","a","u","t","o","m","a","t">>, name |-> "ATM Withdrawals"],
       [pattern |-> <<"b","a","n","c","o","m","a","t">>, name |-> "ATM Withdrawals"],
       [pattern |-> <<"t","r","a","n","s","f","e","r">>, name |-> "Bank Transfers"],
       [pattern |-> <<"ü","b","e","r","w","e","i","s","u","n","g">>, name |-> "Bank Transfers"],
       [pattern |-> <<"v","i","r","e","m","e","n","t">>, name |-> "Bank Transfers"] >>

\* the first category of the given type and name, 0 when there is none
CategoryNamed(cats, type, name) ==
    IF \E c \in DOMAIN cats : cats[c].category_type = type /\ cats[c].name = name
    THEN CHOOSE c \in DOMAIN cats :
             /\ cats[c].category_type = type /\ cats[c].name = name
             /\ \A d \in 1..(c - 1) :
                    ~(cats[d].category_type = type /\ cats[d].name = name)
    ELSE 0

RECURSIVE MappedCategoryFrom(_, _, _)
MappedCategoryFrom(cats, description_lower, k) ==
    IF k > Len(category_mapping)
    THEN CategoryNamed(cats, "MANUAL_REVIEW", "Unknown Vendors")
    ELSE IF /\ Contains(description_lower, category_mapping[k].pattern)
            /\ CategoryNamed(cats, "MANUAL_REVIEW", category_mapping[k].name) # 0
         THEN CategoryNamed(cats, "MANUAL_REVIEW", category_mapping[k].name)
         ELSE MappedCategoryFrom(cats, description_lower, k + 1)

\* the category rows are cats: 0 when the user has no category to route to
get_manual_review_category(cats, description) ==
    MappedCategoryFrom(cats, Lower(description), 1)

AsciiLetter(c) == c \in AZ \/ (c \in LowerSet /\ UpperChar(c) \in AZ)

RECURSIVE FindLetterWords(_, _, _)
\* re.findall(r'[A-Za-z]+', s) from position i, cur the run so far
FindLetterWords(s, i, cur) ==
    IF i > Len(s) THEN (IF cur = <<>> THEN <<>> ELSE <<cur>>)
    ELSE IF AsciiLetter(s[i]) THEN FindLetterWords(s, i + 1, Append(cur, s[i]))
    ELSE (IF cur = <<>> THEN <<>> ELSE <<cur>>) \o FindLetterWords(s, i + 1, <<>>)

\* str.title() of one word of letters
Title(word) == <<UpperChar(Head(word))>> \o Lower(Tail(word))
IsNamePart(word) == Len(word) >= 3

generate_vendor_name(vendor_text) ==
    LET words == FindLetterWords(vendor_text, 1, <<>>)
        name_parts == SelectSeq(Slice(words, 1, Min(2, Len(words))), IsNamePart)
    IN IF words = <<>> THEN <<"U","n","k","n","o","w","n"," ","V","e","n","d","o","r">>
       ELSE IF name_parts = <<>> THEN Title(words[1])
       ELSE JoinWith([i \in 1..Len(name_parts) |-> Title(name_parts[i])], <<" ">>)

\* vendor_name.upper().replace(' ', '')[:10]
FallbackPattern(vendor_name) ==
    LET squeezed == SelectSeq(Upper(vendor_name), NotSpace)
    IN Slice(squeezed, 1, Min(10, Len(squeezed)))

LearningVendors(vs) == {v \in DOMAIN vs : vs[v].allow_auto_learning}
LowestOf(S) == CHOOSE x \in S : \A y \in S : x <= y

NoVendorWrite == [kind |-> "none", vendor_id |-> 0, name |-> <<>>, pattern |-> <<>>]

\* which Vendor row the confirm writes: the first learning-enabled vendor that
\* holds the pattern, else the first with the name, else a new one
create_or_update_vendor_pattern(vs, vendor_name, normalized, category_id) ==
    LET normalized_pattern ==
            IF Len(normalized) < 2 THEN FallbackPattern(vendor_name) ELSE normalized
        by_pattern == {v \in LearningVendors(vs) :
                          normalized_pattern \in SeqToSet(vs[v].patterns)}
        by_name == {v \in LearningVendors(vs) : vs[v].name = vendor_name}
    IN IF by_pattern # {}
       THEN [kind |-> "by_pattern", vendor_id |-> LowestOf(by_pattern),
             name |-> vendor_name, pattern |-> normalized_pattern]
       ELSE IF by_name # {}
       THEN [kind |-> "by_name", vendor_id |-> LowestOf(by_name),
             name |-> vendor_name, pattern |-> normalized_pattern]
       ELSE [kind |-> "create", vendor_id |-> 0,
             name |-> vendor_name, pattern |-> normalized_pattern]

\* the Vendor rows once the session holding vendor write w commits.  Vendor.patterns
\* is a plain ARRAY(Text) column: assigning a list is flushed, appending to the
\* loaded list in place raises no change event and is not.
CommitVendorWrite(vs, w, category_id) ==
    CASE w.kind = "none" -> vs
      [] w.kind = "by_pattern" ->
            [vs EXCEPT ![w.vendor_id].default_category_id = category_id]
      [] w.kind = "by_name" ->
            [vs EXCEPT ![w.vendor_id].default_category_id = category_id,
                       ![w.vendor_id].patterns = IF @ = <<>> THEN <<w.pattern>> ELSE @]
      [] w.kind = "create" ->
            Append(vs, [name |-> w.name, patterns |-> <<w.pattern>>,
                        default_category_id |-> category_id,
                        confidence_threshold |-> 850, allow_auto_learning |-> TRUE])

\* the descriptions the transactions of the model carry
DescTwintCoop == <<"T","W","I","N","T",","," ","C","o","o","p"," ","P","r","o","n","t","o">>
DescCoopPronti == <<"C","o","o","p"," ","P","r","o","n","t","i">>
DescCoopCity == <<"C","o","o","p"," ","C","i","t","y">>
TxDescriptions == <<DescTwintCoop, DescCoopPronti, DescCoopCity>>
NameCoop == <<"C","o","o","p">>
\* a description with a manual-review keyword no default category is mapped to
DescTransferCoop ==
    <<"T","r","a","n","s","f","e","r",","," ","C","o","o","p"," ","P","r","o","n","t","o">>
AllDescriptions == SeqToSet(TxDescriptions) \cup {DescTransferCoop}

\* the normalised vendor part of each description, computed once
NormalizedVendorOf ==
    [d \in AllDescriptions |-> normalize_vendor(extract_vendor_from_description(d))]
GeneratedNameOf ==
    [d \in AllDescriptions |-> generate_vendor_name(extract_vendor_from_description(d))]
SimilarityOf ==
    [p \in {NormalizedVendorOf[d] : d \in AllDescriptions},
     q \in {NormalizedVendorOf[d] : d \in AllDescriptions} |-> Similarity(p, q)]
PatternSimilarity(p, q) ==
    IF <<p, q>> \in DOMAIN SimilarityOf THEN SimilarityOf[p, q] ELSE Similarity(p, q)

find_similar_vendor_transactions(ts, normalized_pattern, exclude_transaction_id) ==
    {t \in DOMAIN ts \ {exclude_transaction_id} :
        LET tx_normalized == NormalizedVendorOf[ts[t].description]
        IN \/ tx_normalized = normalized_pattern
           \/ /\ Len(tx_normalized) > 2 /\ Len(normalized_pattern) > 2
              /\ PatternSimilarity(tx_normalized, normalized_pattern) >= 900}

\* variant: the learning guard asks the category's flag only
LearnByFlag(cats, vs, ts, transaction_id, category_id, vendor_name) ==
    IF transaction_id \notin DOMAIN ts \/ category_id \notin DOMAIN cats
    THEN [raised |-> "ValueError", vendor_write |-> NoVendorWrite, swept |-> {}]
    ELSE LET transaction == ts[transaction_id]
             category == cats[category_id]
             normalized_vendor == NormalizedVendorOf[transaction.description]
             learns == category.allow_auto_learning
             name == IF vendor_name # <<>> THEN vendor_name
                     ELSE GeneratedNameOf[transaction.description]
         IN [raised |-> "none",
             vendor_write |->
                 IF learns
                 THEN create_or_update_vendor_pattern(vs, name, normalized_vendor, category_id)
                 ELSE NoVendorWrite,
             swept |->
                 IF learns
                 THEN {t \in find_similar_vendor_transactions(ts, normalized_vendor,
                                                              transaction_id) :
                          ts[t].category_id = 0}
                 ELSE {}]

\* what a confirm raises or writes, from the rows vs and ts it reads
categorize_transaction_and_learn(cats, vs, ts, transaction_id, category_id, vendor_name) ==
    IF transaction_id \notin DOMAIN ts \/ category_id \notin DOMAIN cats
    THEN [raised |-> "ValueError", vendor_write |-> NoVendorWrite, swept |-> {}]
    ELSE LET transaction == ts[transaction_id]
             category == cats[category_id]
             normalized_vendor == NormalizedVendorOf[transaction.description]
             learns == /\ category.allow_auto_learning
                       /\ category.category_type # "MANUAL_REVIEW"
             name == IF vendor_name # <<>> THEN vendor_name
                     ELSE GeneratedNameOf[transaction.description]
         IN [raised |-> "none",
             vendor_write |->
                 IF learns
                 THEN create_or_update_vendor_pattern(vs, name, normalized_vendor, category_id)
                 ELSE NoVendorWrite,
             swept |->
                 IF learns
                 THEN {t \in find_similar_vendor_transactions(ts, normalized_vendor,
                                                              transaction_id) :
                          ts[t].category_id = 0}
                 ELSE {}]

\* the id of the vendor the confirm links, once the rows vs hold its write
WrittenVendorId(vs, w) ==
    IF w.kind = "create" THEN Len(vs) + 1 ELSE w.vendor_id

\* the Transaction rows once the confirm's session commits
CommitConfirmRows(ts, transaction_id, category_id, vendor_id, swept) ==
    [t \in DOMAIN ts |->
        IF t = transaction_id
        THEN [ts[t] EXCEPT !.vendor_id = IF vendor_id # 0 THEN vendor_id ELSE @,
                           !.category_id = category_id,
                           !.needs_review = FALSE,
                           !.confidence_score = 1000]
        ELSE IF t \in swept
        THEN [ts[t] EXCEPT !.vendor_id = vendor_id,
                           !.category_id = category_id,
                           !.confidence_score = 950,
                           !.needs_review = FALSE]
        ELSE ts[t]]

RECURSIVE MatchScan(_, _, _, _, _, _)
\* the loops of _match_vendor_pattern from vendor v, pattern k on
MatchScan(vs, normalized_desc, v, k, best_match, best_score) ==
    IF v > Len(vs) THEN [vendor_id |-> best_match, score |-> best_score]
    ELSE IF ~vs[v].allow_auto_learning \/ k > Len(vs[v].patterns)
    THEN MatchScan(vs, normalized_desc, v + 1, 1, best_match, best_score)
    ELSE LET pattern == vs[v].patterns[k]
             similarity == PatternSimilarity(pattern, normalized_desc)
         IN IF pattern = normalized_desc THEN [vendor_id |-> v, score |-> 1000]
            ELSE IF /\ Len(pattern) > 2 /\ Len(normalized_desc) > 2
                    /\ similarity > best_score
                    /\ similarity >= vs[v].confidence_threshold
            THEN MatchScan(vs, normalized_desc, v, k + 1, v, similarity)
            ELSE MatchScan(vs, normalized_desc, v, k + 1, best_match, best_score)

match_vendor_pattern(vs, description) ==
    MatchScan(vs, NormalizedVendorOf[description], 1, 1, 0, 0)

\* variant: a matched vendor's default category is assigned whatever the learning flags say
CategorizedRowByVendorFlag(cats, vs, tx, confidence_threshold) ==
    LET review == IF is_manual_review_pattern(tx.description)
                  THEN get_manual_review_category(cats, tx.description) ELSE 0
        match == match_vendor_pattern(vs, tx.description)
    IN IF review # 0
       THEN [tx EXCEPT !.category_id = review, !.needs_review = TRUE,
                       !.confidence_score = 500]
       ELSE IF match.vendor_id # 0 /\ match.score >= confidence_threshold
       THEN [tx EXCEPT !.vendor_id = match.vendor_id,
                       !.category_id = vs[match.vendor_id].default_category_id,
                       !.confidence_score = match.score,
                       !.needs_review = FALSE]
       ELSE [tx EXCEPT !.confidence_score = IF match.vendor_id # 0 THEN match.score ELSE 0,
                       !.needs_review = TRUE]

\* one pass of the loop of categorize_new_transactions over an uncategorized row
CategorizedRow(cats, vs, tx, confidence_threshold) ==
    LET review == IF is_manual_review_pattern(tx.description)
                  THEN get_manual_review_category(cats, tx.description) ELSE 0
        match == match_vendor_pattern(vs, tx.description)
    IN IF review # 0
       THEN [tx EXCEPT !.category_id = review, !.needs_review = TRUE,
                       !.confidence_score = 500]
       ELSE IF match.vendor_id # 0 /\ match.score >= confidence_threshold
       THEN IF /\ vs[match.vendor_id].allow_auto_learning
               /\ vs[match.vendor_id].default_category_id # 0
               /\ vs[match.vendor_id].default_category_id \in DOMAIN cats
               /\ cats[vs[match.vendor_id].default_category_id].allow_auto_learning
            THEN [tx EXCEPT !.vendor_id = match.vendor_id,
                            !.category_id = vs[match.vendor_id].default_category_id,
                            !.confidence_score = match.score,
                            !.needs_review = FALSE]
            ELSE [tx EXCEPT !.vendor_id = match.vendor_id,
                            !.confidence_score = match.score,
                            !.needs_review = TRUE]
       ELSE [tx EXCEPT !.confidence_score = IF match.vendor_id # 0 THEN match.score ELSE 0,
                       !.needs_review = TRUE]

-----------------------------------------------------------------------------
(* The categorization requests over the stored rows                        *)

MaxTx == 3
MaxRequests == 3
TxIds == 1..MaxTx

\* a freshly imported Transaction row
NewRow(description) ==
    [description |-> description, amount |-> -1000, date |-> 0, account_id |-> 1,
     category_id |-> 0, vendor_id |-> 0, needs_review |-> FALSE,
     confidence_score |-> -1, is_transfer |-> FALSE]

Init ==
    /\ NormIdle
    /\ ScoreIdle
    /\ category_rows = categories
    /\ vendors = <<>>
    /\ \E imported \in [TxIds -> DOMAIN TxDescriptions] :
           /\ \A t \in TxIds \ {1} : imported[t - 1] <= imported[t]
           /\ txs = [t \in TxIds |-> NewRow(TxDescriptions[imported[t]])]
    /\ transfers = {}
    /\ transfer_patterns = <<>>
    /\ transfer_settings = <<>>
    /\ procs = <<>>
    /\ requests = 0
    /\ last = [op |-> "none", raised |-> "none"]

\* categorize_new_transactions with its default threshold 0.8, as the CSV upload
\* runs it; the upload's closing commit stores the rows or fails
CategorizeNew ==
    \E commit_ok \in BOOLEAN :
        /\ requests < MaxRequests
        /\ requests' = requests + 1
        /\ txs' = IF commit_ok
                  THEN [t \in DOMAIN txs |->
                           IF txs[t].category_id = 0
                           THEN CategorizedRow(category_rows, vendors, txs[t], 800) ELSE txs[t]]
                  ELSE txs
        /\ last' = [op |-> "categorize_new",
                    raised |-> IF commit_ok THEN "none" ELSE "StorageError"]
        /\ UNCHANGED <<vendors, transfers, transfer_patterns, transfer_settings, procs>>
        /\ UNCHANGED normVars
        /\ UNCHANGED scoreVars
        /\ UNCHANGED category_rows

\* PUT /transactions/{id}/categorize: categorize_transaction_and_learn and its
\* single commit, which stores every pending write or none
ConfirmRequest(transaction_id, category_id, vendor_name, commit_ok) ==
    LET plan == categorize_transaction_and_learn(category_rows, vendors, txs, transaction_id,
                                                 category_id, vendor_name)
        committed == plan.raised = "none" /\ commit_ok
        vendor_id == WrittenVendorId(vendors, plan.vendor_write)
    IN /\ requests < MaxRequests
       /\ requests' = requests + 1
       /\ vendors' = IF committed
                     THEN CommitVendorWrite(vendors, plan.vendor_write, category_id)
                     ELSE vendors
       /\ txs' = IF committed
                 THEN CommitConfirmRows(txs, transaction_id, category_id,
                                        vendor_id, plan.swept)
                 ELSE txs
       /\ last' = [op |-> "confirm",
                   raised |-> IF plan.raised # "none" THEN plan.raised
                              ELSE IF commit_ok THEN "none" ELSE "StorageError"]
       /\ UNCHANGED <<transfers, transfer_patterns, transfer_settings, procs>>
       /\ UNCHANGED normVars
       /\ UNCHANGED scoreVars
       /\ UNCHANGED category_rows

Confirm ==
    \E ids \in (TxIds \X DOMAIN category_rows) \cup {<<0, 1>>, <<1, 0>>},
       vendor_name \in {<<>>, NameCoop}, commit_ok \in BOOLEAN :
        ConfirmRequest(ids[1], ids[2], vendor_name, commit_ok)

Next == CategorizeNew \/ Confirm

Spec == Init /\ [][Next]_vars

IsManualReview(category_id) ==
    /\ category_id \in DOMAIN category_rows
    /\ category_rows[category_id].category_type = "MANUAL_REVIEW"

\* C1: a confirm of a transaction whose category before the call is of type
\* MANUAL_REVIEW creates no Vendor, changes no Vendor's pattern set or default
\* category and sweeps no other transaction, even if the new category allows
\* learning.
C1_NoLearningFromManualReview ==
    [][\A t \in TxIds, c \in DOMAIN category_rows, n \in {<<>>, NameCoop} :
          ConfirmRequest(t, c, n, TRUE) /\ IsManualReview(txs[t].category_id)
              => /\ vendors' = vendors
                 /\ \A u \in TxIds \ {t} : txs'[u] = txs[u]]_vars

\* C7: a confirm that writes a vendor and sweeps similar transactions is
\* atomic: when the commit fails nothing of it is stored and the failure
\* reaches the caller, when it succeeds the vendor's category and pattern, the
\* swept rows and the confirmed row are all stored.
C7_ConfirmAtomic ==
    [][\A t \in TxIds, c \in DOMAIN category_rows, n \in {<<>>, NameCoop}, ok \in BOOLEAN :
          LET plan == categorize_transaction_and_learn(category_rows, vendors, txs, t, c, n)
              w == plan.vendor_write
              v == WrittenVendorId(vendors, w)
          IN ConfirmRequest(t, c, n, ok) /\ w.kind # "none"
                 => IF ok
                    THEN /\ v \in DOMAIN vendors'
                         /\ vendors'[v].default_category_id = c
                         /\ w.pattern \in SeqToSet(vendors'[v].patterns)
                         /\ txs'[t].category_id = c /\ txs'[t].vendor_id = v
                         /\ \A u \in plan.swept :
                                txs'[u].category_id = c /\ txs'[u].vendor_id = v
                    ELSE /\ vendors' = vendors
                         /\ txs' = txs
                         /\ last'.raised = "StorageError"]_vars

-----------------------------------------------------------------------------
(* TransferLearningService.learn_from_manual_transfer                      *)

\* the user's accounts, by account id
accounts ==
    << [name |-> <<"M","a","i","n"," ","1">>, account_type |-> "CHECKING", institution |-> <<>>],
       [name |-> <<"N","e","s","t">>, account_type |-> "SAVINGS", institution |-> <<>>],
       [name |-> <<"H","o","b","b","y">>, account_type |-> "SAVINGS", institution |-> <<>>],
       [name |-> <<"C","a","r","d">>, account_type |-> "CREDIT_CARD", institution |-> <<>>],
       [name |-> <<"D","e","p","o","t">>, account_type |-> "INVESTMENT", institution |-> <<>>],
       [name |-> <<"L","o","a","n">>, account_type |-> "LOAN", institution |-> <<>>] >>
AccountIds == DOMAIN accounts
AccountTypes == [a \in AccountIds |-> accounts[a].account_type]
AccountTypeValue(account_type) ==
    CASE account_type = "CHECKING" -> <<"C","H","E","C","K","I","N","G">>
      [] account_type = "SAVINGS" -> <<"S","A","V","I","N","G","S">>
      [] account_type = "CREDIT_CARD" -> <<"C","R","E","D","I","T","_","C","A","R","D">>
      [] account_type = "INVESTMENT" -> <<"I","N","V","E","S","T","M","E","N","T">>
      [] account_type = "LOAN" -> <<"L","O","A","N">>

IsAlphaOrSpace(c) == c \in UpperSet \/ c \in LowerSet \/ IsSpace(c)

normalize_account_name(name) ==
    JoinWith(Split(SelectSeq(Upper(name), IsAlphaOrSpace)), <<" ">>)

extract_account_pattern(account) ==
    JoinWith(
        <<<<"t","y","p","e",":">> \o AccountTypeValue(account.account_type)>>
        \o (IF normalize_account_name(account.name) # <<>>
            THEN <<<<"n","a","m","e",":">> \o normalize_account_name(account.name)>> ELSE <<>>)
        \o (IF account.institution # <<>>
            THEN <<<<"i","n","s","t","i","t","u","t","i","o","n",":">> \o account.institution>> ELSE <<>>),
        <<"|">>)

AccountPatternOf == [a \in AccountIds |-> extract_account_pattern(accounts[a])]

learning_keywords ==
    << <<"t","r","a","n","s","f","e","r">>, <<"ü","b","e","r","w","e","i","s","u","n","g">>, <<"v","i","r","e","m","e","n","t">>, <<"i","n","t","e","r","n","a","l">>, <<"z","w","i","s","c","h","e","n">>, <<"t","o">>, <<"f","r","o","m">>, <<"p","a","y","m","e","n","t">>, <<"w","i","r","e">> >>

RECURSIVE FoundKeywords(_, _)
FoundKeywords(normalized, k) ==
    IF k > Len(learning_keywords) THEN <<>>
    ELSE (IF Contains(normalized, learning_keywords[k])
          THEN <<learning_keywords[k]>> ELSE <<>>)
         \o FoundKeywords(normalized, k + 1)

extract_description_pattern(description) ==
    IF description = <<>> THEN <<>>
    ELSE LET normalized == Lower(description)
             found_keywords == FoundKeywords(normalized, 1)
             words == Split(normalized)
         IN IF found_keywords # <<>>
            THEN KeywordsTag \o JoinWith(found_keywords, <<",">>)
            ELSE PrefixTag \o JoinWith(Slice(words, 1, Min(3, Len(words))), <<" ">>)

\* _pattern_similarity(p, q) > 0.8, exactly
PatternsMatch(p, q) ==
    /\ p # <<>> /\ q # <<>>
    /\ 2000 * LcsLen(p, q) > 800 * (Len(p) + Len(q))
AccountPatternsMatch ==
    [p \in {AccountPatternOf[a] : a \in AccountIds},
     q \in {AccountPatternOf[a] : a \in AccountIds} |-> PatternsMatch(p, q)]

\* the description _create_transfer_from_transactions and
\* create_transfer_with_learning give a Transfer
TransferDescription(from_tx) == <<"T","r","a","n","s","f","e","r",":"," ">> \o from_tx.description

\* the first active pattern whose two account patterns match, 0 if none
find_similar_pattern(patterns, from_pattern, to_pattern) ==
    LET similar == {p \in DOMAIN patterns :
                       /\ patterns[p].is_active
                       /\ AccountPatternsMatch[patterns[p].from_account_pattern, from_pattern]
                       /\ AccountPatternsMatch[patterns[p].to_account_pattern, to_pattern]}
    IN IF similar = {} THEN 0 ELSE LowestOf(similar)

\* the TransferPattern rows after learn_from_manual_transfer ran for a transfer.
\* A similar pattern is updated in the session and never committed; a new one
\* is added and committed, and when that commit fails the caller drops the error.
learn_from_manual_transfer(patterns, transfer, description, commit_ok) ==
    IF find_similar_pattern(patterns, AccountPatternOf[transfer.from_account_id],
                            AccountPatternOf[transfer.to_account_id]) # 0
    THEN patterns
    ELSE IF ~commit_ok THEN patterns
    ELSE Append(patterns,
                [from_account_pattern |-> AccountPatternOf[transfer.from_account_id],
                 to_account_pattern |-> AccountPatternOf[transfer.to_account_id],
                 description_pattern |-> extract_description_pattern(description),
                 typical_amount |-> transfer.amount,
                 amount_tolerance |-> 50,
                 max_days_between |-> 3,
                 confidence_threshold |-> 800,
                 auto_confirm |-> FALSE,
                 times_matched |-> 1,
                 is_active |-> TRUE])

-----------------------------------------------------------------------------
(* TransferService over the stored rows                                    *)

\* date.today()
Today == MaxDay

TransferRow(amount, date, account_id, description) ==
    [NewRow(description) EXCEPT !.amount = amount, !.date = date,
                                !.account_id = account_id]

\* the rows the transactions of the transfer requests are drawn from
TransferRows ==
    << TransferRow(-10000, Today, 1, DescTransferOut),
       TransferRow(10000, Today - 1, 2, DescCoffee),
       TransferRow(10000, Today, 2, DescTransferOutCap),
       TransferRow(-10000, Today, 2, DescCoffee) >>

\* User.transfer_settings: NULL, or the stored dictionary
NoSettings == [stored |-> FALSE, confidence_threshold |-> 0]

\* the global confidence threshold GET /transfers/settings reports: the stored
\* value over the default 0.85
ConfiguredThreshold(settings) ==
    IF settings.stored THEN settings.confidence_threshold ELSE 850

\* the rows a detection run loads
Candidates(ts) ==
    {t \in DOMAIN ts : ts[t].date >= Today - 7 /\ ts[t].account_id # 0 /\ ~ts[t].is_transfer}

\* order_by(Transaction.date.desc()): every order of S with dates descending
DateOrders(ts, S) ==
    {o \in [1..Cardinality(S) -> S] :
        /\ \A i, j \in DOMAIN o : i # j => o[i] # o[j]
        /\ \A i, j \in DOMAIN o : i < j => ts[o[i]].date >= ts[o[j]].date}

RECURSIVE FirstPartner(_, _, _, _, _)
\* the inner loop: the first later row of the order that is unmatched and pairs
\* with order[i] at 0.5 or more; 0 if none
FirstPartner(ts, order, i, j, matched) ==
    IF j > Len(order) THEN 0
    ELSE IF /\ order[j] \notin matched
            /\ is_potential_transfer_pair(ts[order[i]], ts[order[j]])
            /\ calculate_confidence(AccountTypes, ts[order[i]], ts[order[j]]) >= 500
    THEN j
    ELSE FirstPartner(ts, order, i, j + 1, matched)

RECURSIVE DetectFromOuterClaimed(_, _, _, _, _)
\* variant: only the transaction of the outer loop is marked as matched
DetectFromOuterClaimed(ts, order, i, matched, found) ==
    IF i > Len(order) THEN found
    ELSE IF order[i] \in matched THEN DetectFromOuterClaimed(ts, order, i + 1, matched, found)
    ELSE LET j == FirstPartner(ts, order, i, i + 1, matched)
             tx1 == order[i]
             tx2 == order[j]
         IN IF j = 0 THEN DetectFromOuterClaimed(ts, order, i + 1, matched, found)
            ELSE DetectFromOuterClaimed(ts, order, i + 1, matched \cup {tx1},
                     Append(found,
                         [from_transaction_id |-> IF ts[tx1].amount < 0 THEN tx1 ELSE tx2,
                          to_transaction_id |-> IF ts[tx1].amount < 0 THEN tx2 ELSE tx1,
                          confidence |-> calculate_confidence(AccountTypes, ts[tx1], ts[tx2]),
                          matched_rule |-> "None"]))

RECURSIVE DetectFrom(_, _, _, _, _)
\* the outer loop from position i: the potential transfers in the order found
DetectFrom(ts, order, i, matched, found) ==
    IF i > Len(order) THEN found
    ELSE IF order[i] \in matched THEN DetectFrom(ts, order, i + 1, matched, found)
    ELSE LET j == FirstPartner(ts, order, i, i + 1, matched)
             tx1 == order[i]
             tx2 == order[j]
         IN IF j = 0 THEN DetectFrom(ts, order, i + 1, matched, found)
            ELSE DetectFrom(ts, order, i + 1, matched \cup {tx1, tx2},
                     Append(found,
                         [from_transaction_id |-> IF ts[tx1].amount < 0 THEN tx1 ELSE tx2,
                          to_transaction_id |-> IF ts[tx1].amount < 0 THEN tx2 ELSE tx1,
                          confidence |-> calculate_confidence(AccountTypes, ts[tx1], ts[tx2]),
                          matched_rule |-> "None"]))

NextTransferId(trs) ==
    LowestOf({i \in 1..(Cardinality(trs) + 1) : \A tr \in trs : tr.id # i})

\* the Transfer row both creation paths build
NewTransfer(trs, ts, from_id, to_id, detection_method, confidence_score) ==
    [id |-> NextTransferId(trs),
     from_account_id |-> ts[from_id].account_id,
     to_account_id |-> ts[to_id].account_id,
     from_transaction_id |-> from_id,
     to_transaction_id |-> to_id,
     amount |-> Abs(ts[from_id].amount),
     is_confirmed |-> TRUE,
     detection_method |-> detection_method,
     confidence_score |-> confidence_score]

\* _create_transfer_from_transactions when its commit succeeds: the Transfer
\* row and both is_transfer flags in one commit
create_transfer_from_transactions(store, from_id, to_id) ==
    [transfers |-> store.transfers
                       \cup {NewTransfer(store.transfers, store.txs, from_id, to_id, "auto", -1)},
     txs |-> [t \in DOMAIN store.txs |->
                 IF t \in {from_id, to_id}
                 THEN [store.txs[t] EXCEPT !.is_transfer = TRUE] ELSE store.txs[t]]]

RECURSIVE AutoMatch(_, _, _, _)
\* the auto-match of the potential transfers at the hard-coded 0.9; a creation
\* whose commit fails is rolled back and logged
AutoMatch(found, k, failed, store) ==
    IF k > Len(found) THEN store
    ELSE IF found[k].confidence >= 900 /\ found[k].from_transaction_id \notin failed
    THEN AutoMatch(found, k + 1, failed,
             create_transfer_from_transactions(store, found[k].from_transaction_id,
                                               found[k].to_transaction_id))
    ELSE AutoMatch(found, k + 1, failed, store)

InitTransfer ==
    /\ NormIdle
    /\ ScoreIdle
    /\ category_rows = categories
    /\ vendors = <<>>
    /\ \E imported \in [TxIds -> DOMAIN TransferRows] :
           /\ \A t \in TxIds \ {1} : imported[t - 1] <= imported[t]
           /\ txs = [t \in TxIds |-> TransferRows[imported[t]]]
    /\ transfers = {}
    /\ transfer_patterns = <<>>
    /\ transfer_settings = NoSettings
    /\ procs = <<>>
    /\ requests = 0
    /\ last = [op |-> "none", raised |-> "none"]

\* detect_potential_transfers_enhanced over the rows in the given order, the
\* commits of the creations for the from-transactions in failed failing
DetectRun(order, failed) ==
    LET found == DetectFrom(txs, order, 1, {}, <<>>)
        store == AutoMatch(found, 1, failed, [transfers |-> transfers, txs |-> txs])
    IN /\ requests < MaxRequests
       /\ requests' = requests + 1
       /\ last' = [op |-> "detect", raised |-> "none"]
       /\ transfers' = store.transfers
       /\ txs' = store.txs
       /\ UNCHANGED <<vendors, transfer_patterns, transfer_settings, procs>>
       /\ UNCHANGED normVars
       /\ UNCHANGED scoreVars
       /\ UNCHANGED category_rows

\* the from-transactions of the pairs a run in this order would auto-match
AutoMatched(order) ==
    LET found == DetectFrom(txs, order, 1, {}, <<>>)
    IN {found[k].from_transaction_id : k \in {i \in DOMAIN found : found[i].confidence >= 900}}

\* detect_transfers_with_pockets: its import of UserSettings from the models
\* fails, the error is logged and an empty result returned
DetectWithPockets ==
    /\ requests < MaxRequests
    /\ requests' = requests + 1
    /\ last' = [op |-> "detect_with_pockets", raised |-> "none"]
    /\ UNCHANGED <<vendors, txs, transfers, transfer_patterns, transfer_settings, procs>>
    /\ UNCHANGED normVars
    /\ UNCHANGED scoreVars
    /\ UNCHANGED category_rows

\* GET /transfers/detect, include_pockets either way
Detect ==
    \/ DetectWithPockets
    \/ /\ requests < MaxRequests
       /\ \E order \in DateOrders(txs, Candidates(txs)) :
              \E failed \in SUBSET AutoMatched(order) : DetectRun(order, failed)

\* TransferService.create_manual_transfer
CreateManualTransferRequest(from_id, to_id, learn_pattern, commit_ok, learn_ok) ==
    LET refused == \/ from_id \notin DOMAIN txs \/ to_id \notin DOMAIN txs
                   \/ txs[from_id].account_id = txs[to_id].account_id
                   \/ txs[from_id].is_transfer \/ txs[to_id].is_transfer
        swap == txs[from_id].amount > 0 /\ txs[to_id].amount < 0
        from_tx == IF swap THEN to_id ELSE from_id
        to_tx == IF swap THEN from_id ELSE to_id
        created == ~refused /\ commit_ok
        store == create_transfer_from_transactions(
                     [transfers |-> transfers, txs |-> txs], from_tx, to_tx)
    IN /\ requests < MaxRequests
       /\ requests' = requests + 1
       /\ transfers' = IF created THEN store.transfers ELSE transfers
       /\ txs' = IF created THEN store.txs ELSE txs
       /\ transfer_patterns' =
              IF created /\ learn_pattern
              THEN learn_from_manual_transfer(transfer_patterns,
                       NewTransfer(transfers, txs, from_tx, to_tx, "auto", -1),
                       TransferDescription(txs[from_tx]), learn_ok)
              ELSE transfer_patterns
       /\ last' = [op |-> "create_manual_transfer",
                   raised |-> IF refused THEN "ValueError"
                              ELSE IF commit_ok THEN "none" ELSE "StorageError"]
       /\ UNCHANGED <<vendors, transfer_settings, procs>>
       /\ UNCHANGED normVars
       /\ UNCHANGED scoreVars
       /\ UNCHANGED category_rows

\* POST /transfers/match: TransferService.create_transfer_with_learning
CreateTransferWithLearningRequest(from_id, to_id, learn_pattern, commit_ok, learn_ok) ==
    LET refused == from_id \notin DOMAIN txs \/ to_id \notin DOMAIN txs
        created == ~refused /\ commit_ok
        transfer == NewTransfer(transfers, txs, from_id, to_id, "manual", 1000)
    IN /\ requests < MaxRequests
       /\ requests' = requests + 1
       /\ transfers' = IF created THEN transfers \cup {transfer} ELSE transfers
       /\ transfer_patterns' =
              IF created /\ learn_pattern
              THEN learn_from_manual_transfer(transfer_patterns, transfer,
                       TransferDescription(txs[from_id]), learn_ok)
              ELSE transfer_patterns
       /\ last' = [op |-> "create_transfer_with_learning",
                   raised |-> IF refused THEN "ValueError"
                              ELSE IF commit_ok THEN "none" ELSE "StorageError"]
       /\ UNCHANGED <<vendors, txs, transfer_settings, procs>>
       /\ UNCHANGED normVars
       /\ UNCHANGED scoreVars
       /\ UNCHANGED category_rows

TransferInputs == (TxIds \X TxIds) \cup {<<0, 1>>}

\* the transaction ids POST /transfers/match is given: a pair either way round,
\* one transaction twice, an id that does not exist
MatchInputs == {<<1, 2>>, <<2, 1>>, <<1, 1>>, <<0, 1>>}

\* <<learn_pattern, the creation's commit succeeds, the learning's commit
\* succeeds>>: the outcomes that differ
CreationOutcomes ==
    {<<FALSE, FALSE, TRUE>>, <<FALSE, TRUE, TRUE>>, <<TRUE, TRUE, TRUE>>, <<TRUE, TRUE, FALSE>>}

CreateManualTransfer ==
    \E ids \in TransferInputs, outcome \in CreationOutcomes :
        CreateManualTransferRequest(ids[1], ids[2], outcome[1], outcome[2], outcome[3])

CreateTransferWithLearning ==
    \E ids \in MatchInputs, outcome \in CreationOutcomes :
        CreateTransferWithLearningRequest(ids[1], ids[2], outcome[1], outcome[2], outcome[3])

\* TransferService.delete_transfer: unmark both transactions, delete the row
DeleteTransfer ==
    \E transfer_id \in {tr.id : tr \in transfers} \cup {0}, commit_ok \in BOOLEAN :
        LET found == {tr \in transfers : tr.id = transfer_id}
            deleted == found # {} /\ commit_ok
        IN /\ requests < MaxRequests
           /\ requests' = requests + 1
           /\ transfers' = IF deleted THEN transfers \ found ELSE transfers
           /\ txs' = IF deleted
                     THEN [t \in DOMAIN txs |->
                              IF \E tr \in found : t \in {tr.from_transaction_id,
                                                          tr.to_transaction_id}
                              THEN [txs[t] EXCEPT !.is_transfer = FALSE] ELSE txs[t]]
                     ELSE txs
           /\ last' = [op |-> "delete_transfer",
                       raised |-> IF found = {} THEN "NotFound"
                                  ELSE IF commit_ok THEN "none" ELSE "StorageError"]
           /\ UNCHANGED <<vendors, transfer_patterns, transfer_settings, procs>>
           /\ UNCHANGED normVars
           /\ UNCHANGED scoreVars
           /\ UNCHANGED category_rows

\* PUT /transfers/settings stores the dictionary it is given
UpdateTransferSettings ==
    \E confidence_threshold \in {700, 950}, commit_ok \in BOOLEAN :
        /\ requests < MaxRequests
        /\ requests' = requests + 1
        /\ transfer_settings' =
               IF commit_ok
               THEN [stored |-> TRUE, confidence_threshold |-> confidence_threshold]
               ELSE transfer_settings
        /\ last' = [op |-> "update_transfer_settings",
                    raised |-> IF commit_ok THEN "none" ELSE "StorageError"]
        /\ UNCHANGED <<vendors, txs, transfers, transfer_patterns, procs>>
        /\ UNCHANGED normVars
        /\ UNCHANGED scoreVars
        /\ UNCHANGED category_rows

NextTransfer ==
    \/ Detect
    \/ CreateManualTransfer
    \/ CreateTransferWithLearning
    \/ DeleteTransfer
    \/ UpdateTransferSettings

SpecTransfer == InitTransfer /\ [][NextTransfer]_vars

\* C2: every Transfer that links two transactions links transactions with
\* opposite-signed amounts that belong to distinct accounts, after any sequence
\* of detection runs, manual creations, creations with learning and deletions.
C2_OppositeSignsDistinctAccounts ==
    \A tr \in transfers :
        LET from_tx == txs[tr.from_transaction_id]
            to_tx == txs[tr.to_transaction_id]
        IN /\ \/ from_tx.amount < 0 /\ to_tx.amount > 0
              \/ from_tx.amount > 0 /\ to_tx.amount < 0
           /\ from_tx.account_id # to_tx.account_id
           /\ tr.from_account_id # tr.to_account_id

\* C3: creating a Transfer is one atomic step with marking both transactions:
\* no state has a stored Transfer with only one, or neither, of its two
\* transactions marked as a transfer.
C3_TransferMarksBoth ==
    \A tr \in transfers :
        /\ txs[tr.from_transaction_id].is_transfer
        /\ txs[tr.to_transaction_id].is_transfer

\* C4: a detection run never creates a Transfer for a pair whose confidence is
\* below the user's configured global confidence threshold (no rule is ever
\* matched, so no rule's auto-confirm flag excuses one), for every configured
\* threshold value.
C4_NoAutoConfirmBelowThreshold ==
    [][\A order \in DateOrders(txs, Candidates(txs)), failed \in SUBSET TxIds :
          DetectRun(order, failed)
              => \A tr \in transfers' \ transfers :
                     calculate_confidence(AccountTypes, txs[tr.from_transaction_id],
                                          txs[tr.to_transaction_id])
                         >= ConfiguredThreshold(transfer_settings)]_vars

-----------------------------------------------------------------------------
(* Two requests of one user served at the same time, each with its own     *)
(* session on the shared database.  No service takes a per-user lock, no   *)
(* query locks the rows it reads, and neither Transfer nor Vendor carries  *)
(* a unique constraint.                                                     *)

Workers == {1, 2}

IdleRun == [pc |-> "idle", found |-> <<>>, k |-> 0]

InitConcDetect ==
    /\ NormIdle
    /\ ScoreIdle
    /\ category_rows = categories
    /\ vendors = <<>>
    /\ \E imported \in [TxIds -> DOMAIN TransferRows] :
           /\ \A t \in TxIds \ {1} : imported[t - 1] <= imported[t]
           /\ txs = [t \in TxIds |-> TransferRows[imported[t]]]
    /\ transfers = {}
    /\ transfer_patterns = <<>>
    /\ transfer_settings = NoSettings
    /\ procs = [w \in Workers |-> IdleRun]
    /\ requests = 0
    /\ last = [op |-> "none", raised |-> "none"]

\* detect_potential_transfers_enhanced, its query: the run loads the unmarked
\* rows; the pairs its loops emit are fixed by the rows loaded
DetectQuery(w) ==
    /\ procs[w].pc = "idle"
    /\ \E order \in DateOrders(txs, Candidates(txs)) :
           procs' = [procs EXCEPT ![w] = [pc |-> "matching",
                                          found |-> DetectFrom(txs, order, 1, {}, <<>>),
                                          k |-> 1]]
    /\ UNCHANGED <<vendors, txs, transfers, transfer_patterns, transfer_settings,
                   requests, last>>
    /\ UNCHANGED normVars
    /\ UNCHANGED scoreVars
    /\ UNCHANGED category_rows

\* the run reaches its next emitted pair: at 0.9 or more it creates the
\* Transfer, one commit of its own; a failed commit is rolled back and logged
DetectAutoMatch(w) ==
    LET run == procs[w]
        pair == run.found[run.k]
        store == create_transfer_from_transactions(
                     [transfers |-> transfers, txs |-> txs],
                     pair.from_transaction_id, pair.to_transaction_id)
    IN /\ run.pc = "matching"
       /\ run.k <= Len(run.found)
       /\ \E commit_ok \in BOOLEAN :
              LET created == pair.confidence >= 900 /\ commit_ok
              IN /\ transfers' = IF created THEN store.transfers ELSE transfers
                 /\ txs' = IF created THEN store.txs ELSE txs
       /\ procs' = [procs EXCEPT ![w].k = @ + 1]
       /\ UNCHANGED <<vendors, transfer_patterns, transfer_settings, requests, last>>
       /\ UNCHANGED normVars
       /\ UNCHANGED scoreVars
       /\ UNCHANGED category_rows

\* the run returns its result
DetectReturn(w) ==
    /\ procs[w].pc = "matching"
    /\ procs[w].k > Len(procs[w].found)
    /\ procs' = [procs EXCEPT ![w].pc = "done"]
    /\ UNCHANGED <<vendors, txs, transfers, transfer_patterns, transfer_settings,
                   requests, last>>
    /\ UNCHANGED normVars
    /\ UNCHANGED scoreVars
    /\ UNCHANGED category_rows

NextConcDetect ==
    \/ \E w \in Workers : DetectQuery(w)
    \/ \E w \in Workers : DetectAutoMatch(w)
    \/ \E w \in Workers : DetectReturn(w)

SpecConcDetect == InitConcDetect /\ [][NextConcDetect]_vars

\* C5: when two detector runs of one user execute concurrently, no transaction
\* ends up claimed by both: no transaction is linked by two Transfers the runs
\* created.
C5_NoDoubleClaim ==
    \A a, b \in transfers :
        a.id # b.id =>
            {a.from_transaction_id, a.to_transaction_id}
                \cap {b.from_transaction_id, b.to_transaction_id} = {}

IdleConfirm ==
    [pc |-> "idle", transaction_id |-> 0, category_id |-> 0,
     plan |-> [raised |-> "none", vendor_write |-> NoVendorWrite, swept |-> {}]]

InitConcConfirm ==
    /\ NormIdle
    /\ ScoreIdle
    /\ category_rows = categories
    /\ vendors = <<>>
    /\ \E imported \in [TxIds -> DOMAIN TxDescriptions] :
           /\ \A t \in TxIds \ {1} : imported[t - 1] <= imported[t]
           /\ txs = [t \in TxIds |-> NewRow(TxDescriptions[imported[t]])]
    /\ transfers = {}
    /\ transfer_patterns = <<>>
    /\ transfer_settings = NoSettings
    /\ procs = [w \in Workers |-> IdleConfirm]
    /\ requests = 0
    /\ last = [op |-> "none", raised |-> "none"]

\* categorize_transaction_and_learn up to its commit: the queries for the
\* transaction, the category, the vendor by pattern and by name and the similar
\* transactions read the committed rows; the writes wait in the session
ConfirmQuery(w) ==
    /\ procs[w].pc = "idle"
    /\ \E transaction_id \in TxIds, category_id \in DOMAIN category_rows,
          vendor_name \in {<<>>, NameCoop} :
           LET plan == categorize_transaction_and_learn(category_rows, vendors, txs, transaction_id,
                                                        category_id, vendor_name)
           IN procs' = [procs EXCEPT ![w] = [pc |-> "pending",
                                             transaction_id |-> transaction_id,
                                             category_id |-> category_id,
                                             plan |-> plan]]
    /\ UNCHANGED <<vendors, txs, transfers, transfer_patterns, transfer_settings,
                   requests, last>>
    /\ UNCHANGED normVars
    /\ UNCHANGED scoreVars
    /\ UNCHANGED category_rows

\* the commit: the session's INSERT or UPDATE of the Vendor and its UPDATEs of
\* the transactions reach the rows as they are now, or all are dropped
ConfirmCommit(w) ==
    LET run == procs[w]
        vendor_id == WrittenVendorId(vendors, run.plan.vendor_write)
    IN /\ run.pc = "pending"
       /\ \E commit_ok \in BOOLEAN :
              /\ vendors' = IF commit_ok
                            THEN CommitVendorWrite(vendors, run.plan.vendor_write,
                                                   run.category_id)
                            ELSE vendors
              /\ txs' = IF commit_ok
                        THEN CommitConfirmRows(txs, run.transaction_id, run.category_id,
                                               vendor_id, run.plan.swept)
                        ELSE txs
       /\ procs' = [procs EXCEPT ![w].pc = "done"]
       /\ UNCHANGED <<transfers, transfer_patterns, transfer_settings, requests, last>>
       /\ UNCHANGED normVars
       /\ UNCHANGED scoreVars
       /\ UNCHANGED category_rows

NextConcConfirm ==
    \/ \E w \in Workers : ConfirmQuery(w)
    \/ \E w \in Workers : ConfirmCommit(w)

SpecConcConfirm == InitConcConfirm /\ [][NextConcConfirm]_vars

\* C6: when two confirms of one user run concurrently on transactions with the
\* same normalized pattern or the same vendor name, at most one Vendor holds
\* that pattern and at most one that name afterwards.
C6_NoDuplicateVendor ==
    \A a, b \in DOMAIN vendors :
        a # b => /\ vendors[a].name # vendors[b].name
                 /\ SeqToSet(vendors[a].patterns) \cap SeqToSet(vendors[b].patterns) = {}

-----------------------------------------------------------------------------
(* Category create and update: api/v1/endpoints/categories.py.  In a       *)
(* request body a field left out is "unset"; parent_category_id -1 is left *)
(* out and 0 is null.                                                      *)

MaxCategories == 4

\* CategoryBase.validate_auto_learning and the create endpoint's own rule
CreatedAllowAutoLearning(category_in) ==
    IF category_in.category_type = "MANUAL_REVIEW" THEN FALSE
    ELSE category_in.allow_auto_learning

\* POST /categories/
CreateCategoryRequest(category_in, commit_ok) ==
    LET existing == \E c \in DOMAIN category_rows :
                        /\ category_rows[c].name = category_in.name
                        /\ category_rows[c].category_type = category_in.category_type
        parent_id == category_in.parent_category_id
        parent_missing == parent_id # 0 /\ parent_id \notin DOMAIN category_rows
        type_mismatch == /\ parent_id \in DOMAIN category_rows
                         /\ category_rows[parent_id].category_type
                                # category_in.category_type
        refused == existing \/ parent_missing \/ type_mismatch
    IN /\ requests < MaxRequests
       /\ Len(category_rows) < MaxCategories
       /\ requests' = requests + 1
       /\ category_rows' =
              IF ~refused /\ commit_ok
              THEN Append(category_rows,
                          [name |-> category_in.name,
                           category_type |-> category_in.category_type,
                           parent_category_id |-> parent_id,
                           allow_auto_learning |-> CreatedAllowAutoLearning(category_in)])
              ELSE category_rows
       /\ last' = [op |-> "create_category",
                   raised |-> IF refused THEN "400"
                              ELSE IF commit_ok THEN "none" ELSE "StorageError"]
       /\ UNCHANGED <<vendors, txs, transfers, transfer_patterns, transfer_settings, procs>>
       /\ UNCHANGED normVars
       /\ UNCHANGED scoreVars

\* CategoryUpdate.validate_auto_learning_update, then the endpoint's rule for
\* update_data: the allow_auto_learning the update stores, given the stored one
UpdatedAllowAutoLearning(update, stored) ==
    IF update.category_type = "MANUAL_REVIEW" THEN FALSE
    ELSE IF update.allow_auto_learning = "unset" THEN stored
    ELSE update.allow_auto_learning = "true"

\* how update_category answers the update of category_id over the rows cats
UpdateCategoryRaised(cats, category_id, update) ==
    IF category_id \notin DOMAIN cats THEN "404"
    ELSE LET category == cats[category_id]
             new_name == IF update.name # "unset" THEN update.name ELSE category.name
             new_type == IF update.category_type # "unset" THEN update.category_type
                         ELSE category.category_type
             existing == /\ update.name # "unset" \/ update.category_type # "unset"
                         /\ \E c \in DOMAIN cats \ {category_id} :
                                cats[c].name = new_name /\ cats[c].category_type = new_type
             parent_id == update.parent_category_id
         IN IF existing THEN "400"
            ELSE IF parent_id <= 0 THEN "none"
            ELSE IF parent_id \notin DOMAIN cats THEN "400"
            ELSE IF parent_id = category_id THEN "400"
            ELSE IF cats[parent_id].category_type # new_type THEN "400"
            ELSE "none"

\* the row after the setattr loop over update_data
UpdatedCategory(category, update) ==
    [name |-> IF update.name # "unset" THEN update.name ELSE category.name,
     category_type |-> IF update.category_type # "unset" THEN update.category_type
                       ELSE category.category_type,
     parent_category_id |-> IF update.parent_category_id >= 0
                            THEN update.parent_category_id
                            ELSE category.parent_category_id,
     allow_auto_learning |-> UpdatedAllowAutoLearning(update, category.allow_auto_learning)]

\* PUT /categories/{category_id}
UpdateCategoryRequest(category_id, update, commit_ok) ==
    LET raised == UpdateCategoryRaised(category_rows, category_id, update)
    IN /\ requests < MaxRequests
       /\ requests' = requests + 1
       /\ category_rows' =
              IF raised = "none" /\ commit_ok
              THEN [category_rows EXCEPT
                       ![category_id] = UpdatedCategory(category_rows[category_id], update)]
              ELSE category_rows
       /\ last' = [op |-> "update_category",
                   raised |-> IF raised # "none" THEN raised
                              ELSE IF commit_ok THEN "none" ELSE "StorageError"]
       /\ UNCHANGED <<vendors, txs, transfers, transfer_patterns, transfer_settings, procs>>
       /\ UNCHANGED normVars
       /\ UNCHANGED scoreVars

\* an update body with every field left out
NoUpdate ==
    [name |-> "unset", category_type |-> "unset", parent_category_id |-> -1,
     allow_auto_learning |-> "unset"]

RECURSIVE AncestorsWithin(_, _, _)
\* the categories reached from c by at most n steps along parent_category_id
AncestorsWithin(cats, c, n) ==
    IF n = 0 \/ c \notin DOMAIN cats \/ cats[c].parent_category_id \notin DOMAIN cats
    THEN {}
    ELSE {cats[c].parent_category_id}
             \cup AncestorsWithin(cats, cats[c].parent_category_id, n - 1)

Ancestors(cats, c) == AncestorsWithin(cats, c, Len(cats))
Acyclic(cats) == \A c \in DOMAIN cats : c \notin Ancestors(cats, c)

\* the parents a hierarchy request names: none, each stored category, one that
\* does not exist
ParentInputs == (0..Len(category_rows)) \cup {MaxCategories + 1}

InitHierarchy ==
    /\ NormIdle
    /\ ScoreIdle
    /\ vendors = <<>>
    /\ txs = <<>>
    /\ transfers = {}
    /\ transfer_patterns = <<>>
    /\ transfer_settings = NoSettings
    /\ procs = <<>>
    /\ requests = 0
    /\ last = [op |-> "none", raised |-> "none"]
    /\ category_rows = categories

CreateChildCategory ==
    \E name \in {"Food", "Groceries"}, category_type \in {"EXPENSE", "MANUAL_REVIEW"},
       parent_category_id \in ParentInputs, commit_ok \in BOOLEAN :
        CreateCategoryRequest([name |-> name, category_type |-> category_type,
                               parent_category_id |-> parent_category_id,
                               allow_auto_learning |-> TRUE], commit_ok)

MoveCategory ==
    \E category_id \in (DOMAIN category_rows) \cup {MaxCategories + 1},
       parent_category_id \in ParentInputs, commit_ok \in BOOLEAN :
        UpdateCategoryRequest(category_id,
                              [NoUpdate EXCEPT !.parent_category_id = parent_category_id],
                              commit_ok)

NextHierarchy == CreateChildCategory \/ MoveCategory

SpecHierarchy == InitHierarchy /\ [][NextHierarchy]_vars

\* C15: after any sequence of category create and update operations the parent
\* relation is acyclic: no category is among its own ancestors.
C15_ParentAcyclic == Acyclic(category_rows)

-----------------------------------------------------------------------------
(* Categorization while the user edits the learning flags and types of the *)
(* categories.                                                              *)

\* the Vendor row a confirm of 'TWINT, Coop Pronto' into Food leaves behind
LearnedVendors ==
    CommitVendorWrite(<<>>,
        create_or_update_vendor_pattern(<<>>, GeneratedNameOf[DescTwintCoop],
                                        NormalizedVendorOf[DescTwintCoop], 1), 1)

ReviewDescriptions == <<DescTwintCoop, DescTransferCoop, DescCoopPronti>>

InitCategory ==
    /\ NormIdle
    /\ ScoreIdle
    /\ category_rows = categories
    /\ vendors \in {<<>>, LearnedVendors}
    /\ \E imported \in [TxIds -> DOMAIN ReviewDescriptions] :
           /\ \A t \in TxIds \ {1} : imported[t - 1] <= imported[t]
           /\ \A d \in DOMAIN ReviewDescriptions : \E t \in TxIds : imported[t] = d
           /\ txs = [t \in TxIds |-> NewRow(ReviewDescriptions[imported[t]])]
    /\ transfers = {}
    /\ transfer_patterns = <<>>
    /\ transfer_settings = NoSettings
    /\ procs = <<>>
    /\ requests = 0
    /\ last = [op |-> "none", raised |-> "none"]

\* the categories the requests edit and confirm into: Food and the review ones
EditedCategories == {c \in DOMAIN category_rows : category_rows[c].name # "Personal"}

\* the confirms of the review screen: the vendor name left to the service
ConfirmGenerated ==
    \E transaction_id \in TxIds, category_id \in EditedCategories :
        ConfirmRequest(transaction_id, category_id, <<>>, TRUE)

\* the request bodies that edit a category's type and learning flag
LearningUpdates ==
    {[NoUpdate EXCEPT !.category_type = "MANUAL_REVIEW"],
     [NoUpdate EXCEPT !.allow_auto_learning = "true"],
     [NoUpdate EXCEPT !.allow_auto_learning = "false"],
     [NoUpdate EXCEPT !.category_type = "MANUAL_REVIEW", !.allow_auto_learning = "true"]}

SetLearning ==
    \E category_id \in EditedCategories, update \in LearningUpdates :
        UpdateCategoryRequest(category_id, update, TRUE)

CreateReviewCategory ==
    \E name \in {"Bank Transfers", "Unknown Vendors"} :
        CreateCategoryRequest([name |-> name, category_type |-> "MANUAL_REVIEW",
                               parent_category_id |-> 0,
                               allow_auto_learning |-> TRUE], TRUE)

NextCategory ==
    \/ CategorizeNew
    \/ ConfirmGenerated
    \/ SetLearning
    \/ CreateReviewCategory

SpecCategory == InitCategory /\ [][NextCategory]_vars

\* the rows categorize_new_transactions works on: the uncategorized ones
Uncategorized == {t \in DOMAIN txs : txs[t].category_id = 0}

\* C11: every uncategorized transaction whose description contains a
\* manual-review keyword is routed by categorize_new_transactions to a category
\* of type MANUAL_REVIEW with confidence 0.5 and needs-review set, and gets no
\* vendor, whatever categories the user has.
C11_KeywordRoutedToManualReview ==
    [][CategorizeNew /\ last'.raised = "none"
          => \A t \in Uncategorized :
                 is_manual_review_pattern(txs[t].description)
                     => /\ IsManualReview(txs'[t].category_id)
                        /\ txs'[t].confidence_score = 500
                        /\ txs'[t].needs_review
                        /\ txs'[t].vendor_id = 0]_vars

\* the matcher's answer for transaction t: a vendor at or above the 0.8 of
\* categorize_new_transactions, 0 if none
MatchedVendor(t) ==
    LET match == match_vendor_pattern(vendors, txs[t].description)
    IN IF match.vendor_id # 0 /\ match.score >= 800 THEN match.vendor_id ELSE 0

\* the stored flags of vendor v and of its default category both allow learning
PermitsLearning(v) ==
    /\ vendors[v].allow_auto_learning
    /\ vendors[v].default_category_id \in DOMAIN category_rows
    /\ category_rows[vendors[v].default_category_id].allow_auto_learning

\* the manual-review pre-check takes transaction t before the matcher sees it
RoutedToReview(t) ==
    /\ is_manual_review_pattern(txs[t].description)
    /\ get_manual_review_category(category_rows, txs[t].description) # 0

\* C12: the matcher sets a transaction's category and clears needs-review only
\* when a vendor matched and the flags of that vendor and of its default
\* category both permit learning; when a vendor matched and a flag forbids
\* learning, the vendor alone is assigned, the category stays unset and
\* needs-review stays set.
C12_MatcherDecision ==
    [][CategorizeNew /\ last'.raised = "none"
          => \A t \in Uncategorized :
                 /\ (txs'[t].category_id # 0 /\ ~txs'[t].needs_review)
                        => /\ MatchedVendor(t) # 0
                           /\ PermitsLearning(MatchedVendor(t))
                           /\ txs'[t].vendor_id = MatchedVendor(t)
                           /\ txs'[t].category_id
                                  = vendors[MatchedVendor(t)].default_category_id
                 /\ (/\ ~RoutedToReview(t)
                     /\ MatchedVendor(t) # 0
                     /\ ~PermitsLearning(MatchedVendor(t)))
                        => /\ txs'[t].vendor_id = MatchedVendor(t)
                           /\ txs'[t].category_id = 0
                           /\ txs'[t].needs_review]_vars

\* a categorization run left a transaction with a vendor and no category
C12_Witness ==
    /\ last = [op |-> "categorize_new", raised |-> "none"]
    /\ \E t \in DOMAIN txs :
           /\ txs[t].vendor_id \in DOMAIN vendors
           /\ txs[t].category_id = 0
           /\ txs[t].needs_review
           /\ ~PermitsLearning(txs[t].vendor_id)

C14_ManualReviewNeverLearns ==
    [][/\ (CategorizeNew /\ last'.raised = "none")
           => \A t \in Uncategorized :
                  (txs'[t].category_id # 0 /\ ~txs'[t].needs_review)
                      => ~IsManualReview(txs'[t].category_id)
       /\ \A t \in TxIds, c \in DOMAIN category_rows :
              ConfirmRequest(t, c, <<>>, TRUE) /\ IsManualReview(c)
                  => vendors' = vendors]_vars

-----------------------------------------------------------------------------
(* Transfer patterns: learning, settings, deletion and suggestions         *)

\* _pattern_similarity(p, q) > 0.7, exactly
AccountPatternsNear ==
    [p \in {AccountPatternOf[a] : a \in AccountIds},
     q \in {AccountPatternOf[a] : a \in AccountIds} |->
        2000 * LcsLen(p, q) > 700 * (Len(p) + Len(q))]

\* _get_matching_accounts: the (active) accounts whose pattern is near the given one
get_matching_accounts(pattern) ==
    IF pattern = <<>> THEN {}
    ELSE {a \in AccountIds : AccountPatternsNear[AccountPatternOf[a], pattern]}

\* the rows find_potential_transfers_by_patterns and _get_heuristic_suggestions
\* load: the last 30 days, with an account, not marked as transfer
Loaded(ts, t) ==
    ts[t].date >= Today - 30 /\ ts[t].account_id # 0 /\ ~ts[t].is_transfer

LexLessEq(a, b) ==
    a = b \/ \E i \in DOMAIN a : a[i] < b[i] /\ \A j \in 1..(i - 1) : a[j] = b[j]

\* <<pattern, from transaction, to transaction>> for every pair the loops of
\* _find_matches_for_pattern score
PatternPairs(patterns, ts) ==
    {c \in (DOMAIN patterns) \X (DOMAIN ts) \X (DOMAIN ts) :
        /\ patterns[c[1]].is_active
        /\ Loaded(ts, c[2]) /\ Loaded(ts, c[3])
        /\ ts[c[2]].account_id \in get_matching_accounts(patterns[c[1]].from_account_pattern)
        /\ ts[c[3]].account_id \in get_matching_accounts(patterns[c[1]].to_account_pattern)
        /\ ts[c[2]].account_id # ts[c[3]].account_id
        /\ ts[c[2]].amount < 0 /\ ts[c[3]].amount > 0}

\* the place of a pair in the loops: pattern, from account, to account, then
\* the two rows (rows of one date are taken in id order)
PairKey(ts, c) == <<c[1], ts[c[2]].account_id, ts[c[3]].account_id, c[2], c[3]>>

RECURSIVE PairsInLoopOrder(_, _)
PairsInLoopOrder(ts, S) ==
    IF S = {} THEN <<>>
    ELSE LET c == CHOOSE c \in S : \A d \in S : LexLessEq(PairKey(ts, c), PairKey(ts, d))
         IN <<c>> \o PairsInLoopOrder(ts, S \ {c})

RECURSIVE deduplicate_suggestions(_, _)
\* _deduplicate_suggestions: the first suggestion of every (from, to) key
deduplicate_suggestions(suggestions, seen) ==
    IF suggestions = <<>> THEN <<>>
    ELSE LET key == <<Head(suggestions).from_transaction_id,
                      Head(suggestions).to_transaction_id>>
         IN IF key \in seen THEN deduplicate_suggestions(Tail(suggestions), seen)
            ELSE <<Head(suggestions)>>
                     \o deduplicate_suggestions(Tail(suggestions), seen \cup {key})

\* find_potential_transfers_by_patterns: the matches of the active patterns at
\* or above each pattern's own threshold, deduplicated, highest confidence
\* first; an exception while scoring any pair empties the whole answer.
find_potential_transfers_by_patterns(patterns, ts) ==
    LET pairs == PatternPairs(patterns, ts)
        score(c) == calculate_pattern_confidence(patterns[c[1]], ts[c[2]], ts[c[3]])
        matches == {c \in pairs :
                       score(c).confidence >= patterns[c[1]].confidence_threshold}
        ordered == PairsInLoopOrder(ts, matches)
    IN IF \E c \in pairs : score(c).raised THEN <<>>
       ELSE SortByConfidence(
                deduplicate_suggestions(
                    [i \in DOMAIN ordered |->
                        [from_transaction_id |-> ordered[i][2],
                         to_transaction_id |-> ordered[i][3],
                         confidence |-> score(ordered[i]).confidence,
                         pattern_id |-> ordered[i][1]]], {}),
                <<>>)

\* the category _get_heuristic_suggestions creates when the user has none of
\* type TRANSFER
AccountTransfers ==
    [name |-> "Account Transfers", category_type |-> "TRANSFER",
     parent_category_id |-> 0, allow_auto_learning |-> TRUE]

TransferCategoryIds(cats) == {c \in DOMAIN cats : cats[c].category_type = "TRANSFER"}

\* the pairs the two loops of _get_heuristic_suggestions accept, tx1 before tx2
\* (rows of one date are taken in id order)
HeuristicPairs(cats, ts) ==
    {c \in (DOMAIN ts) \X (DOMAIN ts) :
        /\ c[1] < c[2]
        /\ Loaded(ts, c[1]) /\ Loaded(ts, c[2])
        /\ ts[c[1]].category_id \in TransferCategoryIds(cats)
        /\ ts[c[2]].category_id \in TransferCategoryIds(cats)
        /\ is_potential_transfer_pair(ts[c[1]], ts[c[2]])
        /\ calculate_confidence(AccountTypes, ts[c[1]], ts[c[2]]) >= 500}

RECURSIVE HeuristicInLoopOrder(_)
HeuristicInLoopOrder(S) ==
    IF S = {} THEN <<>>
    ELSE LET c == CHOOSE c \in S : \A d \in S : LexLessEq(c, d)
         IN <<c>> \o HeuristicInLoopOrder(S \ {c})

\* _get_heuristic_suggestions(limit) for a user who has a TRANSFER category
get_heuristic_suggestions(cats, ts, limit) ==
    LET ordered == HeuristicInLoopOrder(HeuristicPairs(cats, ts))
        found == [i \in DOMAIN ordered |->
                     LET tx1 == ordered[i][1]
                         tx2 == ordered[i][2]
                     IN [from_transaction_id |-> IF ts[tx1].amount < 0 THEN tx1 ELSE tx2,
                         to_transaction_id |-> IF ts[tx1].amount < 0 THEN tx2 ELSE tx1,
                         confidence |-> calculate_confidence(AccountTypes, ts[tx1], ts[tx2]),
                         pattern_id |-> 0]]
    IN SubSeq(found, 1, Min(limit, Len(found)))

\* GET /transfers/suggestions: TransferService.get_transfer_suggestions.  The
\* heuristics are asked when the patterns gave fewer than limit suggestions;
\* they first create 'Account Transfers' when the user has no TRANSFER category
\* (and then find no row in it), and answer nothing when that commit fails.
GetTransferSuggestionsRequest(limit, commit_ok) ==
    LET pattern_suggestions == find_potential_transfers_by_patterns(transfer_patterns, txs)
        asks_heuristics == Len(pattern_suggestions) < limit
        creates == asks_heuristics /\ TransferCategoryIds(category_rows) = {}
        heuristic_suggestions ==
            IF creates THEN <<>>
            ELSE get_heuristic_suggestions(category_rows, txs,
                                           limit - Len(pattern_suggestions))
        unique_suggestions ==
            SortByConfidence(
                deduplicate_suggestions(pattern_suggestions \o heuristic_suggestions, {}),
                <<>>)
    IN /\ requests < MaxRequests
       /\ requests' = requests + 1
       /\ category_rows' = IF creates /\ commit_ok
                           THEN Append(category_rows, AccountTransfers)
                           ELSE category_rows
       /\ last' = [op |-> "get_transfer_suggestions", raised |-> "none",
                   suggestions |->
                       IF ~asks_heuristics
                       THEN SubSeq(pattern_suggestions, 1, limit)
                       ELSE SubSeq(unique_suggestions, 1,
                                   Min(limit, Len(unique_suggestions)))]
       /\ UNCHANGED <<vendors, txs, transfers, transfer_patterns, transfer_settings, procs>>
       /\ UNCHANGED normVars
       /\ UNCHANGED scoreVars

\* a settings body of PUT /transfers/patterns/{pattern_id} with every key left out
NoPatternSettings ==
    [auto_confirm |-> "unset", confidence_threshold |-> -1, amount_tolerance |-> -1,
     max_days_between |-> -1, is_active |-> "unset"]

\* TransferLearningService.update_pattern_settings
UpdatePatternRequest(pattern_id, settings, commit_ok) ==
    LET found == pattern_id \in DOMAIN transfer_patterns
        pattern == transfer_patterns[pattern_id]
        updated ==
            [pattern EXCEPT
                !.auto_confirm = IF settings.auto_confirm = "unset" THEN @
                                 ELSE settings.auto_confirm = "true",
                !.confidence_threshold = IF settings.confidence_threshold = -1 THEN @
                                         ELSE settings.confidence_threshold,
                !.amount_tolerance = IF settings.amount_tolerance = -1 THEN @
                                     ELSE settings.amount_tolerance,
                !.max_days_between = IF settings.max_days_between = -1 THEN @
                                     ELSE settings.max_days_between,
                !.is_active = IF settings.is_active = "unset" THEN @
                              ELSE settings.is_active = "true"]
    IN /\ requests < MaxRequests
       /\ requests' = requests + 1
       /\ transfer_patterns' = IF found /\ commit_ok
                               THEN [transfer_patterns EXCEPT ![pattern_id] = updated]
                               ELSE transfer_patterns
       /\ last' = [op |-> "update_transfer_pattern",
                   raised |-> IF ~found THEN "404"
                              ELSE IF commit_ok THEN "none" ELSE "500"]
       /\ UNCHANGED <<vendors, txs, transfers, transfer_settings, procs, category_rows>>
       /\ UNCHANGED normVars
       /\ UNCHANGED scoreVars

RemoveAt(q, i) == SubSeq(q, 1, i - 1) \o SubSeq(q, i + 1, Len(q))

\* DELETE /transfers/patterns/{pattern_id}: TransferLearningService.delete_pattern
\* deletes the row and commits; the endpoint's 404 for a missing pattern (or a
\* failed commit, which the service turns into False) is raised inside its own
\* try and leaves as a 500.
DeletePatternRequest(pattern_id, commit_ok) ==
    LET found == pattern_id \in DOMAIN transfer_patterns
    IN /\ requests < MaxRequests
       /\ requests' = requests + 1
       /\ transfer_patterns' = IF found /\ commit_ok
                               THEN RemoveAt(transfer_patterns, pattern_id)
                               ELSE transfer_patterns
       /\ last' = [op |-> "delete_transfer_pattern",
                   raised |-> IF found /\ commit_ok THEN "none" ELSE "500"]
       /\ UNCHANGED <<vendors, txs, transfers, transfer_settings, procs, category_rows>>
       /\ UNCHANGED normVars
       /\ UNCHANGED scoreVars

\* the rows of the pattern requests: money into Main 1, money out of Nest, and
\* an empty booking on Hobby
PatternRows ==
    << TransferRow(50000, Today, 1, DescTransferOutCap),
       TransferRow(-50000, Today, 2, DescTransferOut),
       TransferRow(0, Today, 3, DescCoffee) >>

InitPattern ==
    /\ NormIdle
    /\ ScoreIdle
    /\ vendors = <<>>
    /\ category_rows \in {categories, Append(categories, AccountTransfers)}
    /\ \E assigned \in [DOMAIN PatternRows -> {0} \cup TransferCategoryIds(category_rows)] :
           txs = [t \in DOMAIN PatternRows |->
                     [PatternRows[t] EXCEPT !.category_id = assigned[t]]]
    /\ transfers = {}
    /\ transfer_patterns = <<>>
    /\ transfer_settings = NoSettings
    /\ procs = <<>>
    /\ requests = 0
    /\ last = [op |-> "none", raised |-> "none"]

\* the transaction ids POST /transfers/match is given: out of Nest into Main 1,
\* out of Hobby into Main 1, the wrong way round, an id that does not exist
PatternMatchInputs == {<<2, 1>>, <<3, 1>>, <<1, 2>>, <<0, 1>>}

LearnTransfer ==
    \E ids \in PatternMatchInputs, outcome \in CreationOutcomes :
        CreateTransferWithLearningRequest(ids[1], ids[2], outcome[1], outcome[2], outcome[3])

PatternSettings ==
    {[NoPatternSettings EXCEPT !.confidence_threshold = 500],
     [NoPatternSettings EXCEPT !.is_active = "false"],
     [NoPatternSettings EXCEPT !.auto_confirm = "true"]}

UpdatePattern ==
    \E pattern_id \in (DOMAIN transfer_patterns) \cup {Len(transfer_patterns) + 1},
       settings \in PatternSettings, commit_ok \in BOOLEAN :
        UpdatePatternRequest(pattern_id, settings, commit_ok)

DeletePattern ==
    \E pattern_id \in (DOMAIN transfer_patterns) \cup {Len(transfer_patterns) + 1},
       commit_ok \in BOOLEAN :
        DeletePatternRequest(pattern_id, commit_ok)

GetTransferSuggestions ==
    \E limit \in {1, 20}, commit_ok \in BOOLEAN :
        GetTransferSuggestionsRequest(limit, commit_ok)

NextPattern == LearnTransfer \/ UpdatePattern \/ DeletePattern \/ GetTransferSuggestions
SpecPattern == InitPattern /\ [][NextPattern]_vars

\* similarity of two account patterns at or above 0.8, exactly
AccountPatternsSimilar ==
    [p \in {AccountPatternOf[a] : a \in AccountIds},
     q \in {AccountPatternOf[a] : a \in AccountIds} |->
        2000 * LcsLen(p, q) >= 800 * (Len(p) + Len(q))]

\* the active patterns both of whose account patterns are at least 0.8 similar
\* to those of the accounts of the rows from_id and to_id
SimilarPatterns(from_id, to_id) ==
    {p \in DOMAIN transfer_patterns :
        /\ transfer_patterns[p].is_active
        /\ AccountPatternsSimilar[transfer_patterns[p].from_account_pattern,
                                  AccountPatternOf[txs[from_id].account_id]]
        /\ AccountPatternsSimilar[transfer_patterns[p].to_account_pattern,
                                  AccountPatternOf[txs[to_id].account_id]]}

\* C16: learning from a confirmed transfer whose from and to account patterns
\* are both at least 0.8 similar to those of an existing active pattern merges
\* into that pattern: the number of patterns is unchanged and exactly that
\* pattern's times-matched grows by one.
C16_SimilarPatternMerged ==
    [][\A ids \in PatternMatchInputs \cap ((DOMAIN txs) \X (DOMAIN txs)) :
          (/\ CreateTransferWithLearningRequest(ids[1], ids[2], TRUE, TRUE, TRUE)
           /\ SimilarPatterns(ids[1], ids[2]) # {})
              => /\ Len(transfer_patterns') = Len(transfer_patterns)
                 /\ \E p \in SimilarPatterns(ids[1], ids[2]) :
                        transfer_patterns' =
                            [transfer_patterns EXCEPT
                                ![p].times_matched = @ + 1,
                                ![p].typical_amount = transfer_patterns'[p].typical_amount]]_vars

\* C17: removing a pattern deactivates it and keeps the row: the pattern is
\* still stored, inactive, and so no longer read by the matching, which loads
\* active patterns only.
C17_DeleteDeactivates ==
    [][\A p \in DOMAIN transfer_patterns :
          DeletePatternRequest(p, TRUE)
              => transfer_patterns' = [transfer_patterns EXCEPT ![p].is_active = FALSE]]_vars

\* C20: every suggestion GET /transfers/suggestions returns pairs two
\* transactions whose category is of type TRANSFER.
C20_SuggestionsOnlyTransferCategory ==
    [][last'.op = "get_transfer_suggestions" /\ requests' = requests + 1
          => \A i \in DOMAIN last'.suggestions :
                 \A t \in {last'.suggestions[i].from_transaction_id,
                           last'.suggestions[i].to_transaction_id} :
                     txs[t].category_id \in TransferCategoryIds(category_rows')]_vars

-----------------------------------------------------------------------------
(* Detection of one same-day pair of equal amounts between two accounts    *)

DescTransferIn == <<"t","r","a","n","s","f","e","r"," ","i","n">>

\* 500.00 out of account A and 500.00 into account B on one day, both
\* descriptions containing "transfer", for every two accounts of the user
InitAutoConfirm ==
    /\ NormIdle
    /\ ScoreIdle
    /\ category_rows = categories
    /\ vendors = <<>>
    /\ \E a \in AccountIds, b \in AccountIds,
          description \in {DescTransferOutCap, DescTransferIn} :
           /\ a # b
           /\ txs = << TransferRow(-50000, Today, a, DescTransferOut),
                    TransferRow(50000, Today, b, description) >>
    /\ transfers = {}
    /\ transfer_patterns = <<>>
    /\ transfer_settings = NoSettings
    /\ procs = <<>>
    /\ requests = 0
    /\ last = [op |-> "none", raised |-> "none"]

NextAutoConfirm == Detect \/ DeleteTransfer
SpecAutoConfirm == InitAutoConfirm /\ [][NextAutoConfirm]_vars

\* C18: with the default settings, a detection run over -500.00 on account A
\* and +500.00 on account B of the same day, both descriptions containing
\* "transfer", scores the pair at 0.85 or more and confirms it automatically,
\* creating a Transfer of 500.00, whatever the two account types are.
C18_SameDayPairAutoConfirmed ==
    [][\A order \in DateOrders(txs, Candidates(txs)) :
          (/\ DetectRun(order, {})
           /\ Candidates(txs) = {1, 2}
           /\ ~transfer_settings.stored)
              => /\ calculate_confidence(AccountTypes, txs[1], txs[2]) >= 850
                 /\ \E tr \in transfers' :
                        /\ tr.from_transaction_id = 1
                        /\ tr.to_transaction_id = 2
                        /\ tr.amount = 50000
                        /\ tr.is_confirmed]_vars

-----------------------------------------------------------------------------
(* Manual-review routing for a user holding the default categories         *)

DefaultCategory(name, category_type, parent_category_id, allow_auto_learning) ==
    [name |-> name, category_type |-> category_type,
     parent_category_id |-> parent_category_id,
     allow_auto_learning |-> allow_auto_learning]

\* the parent row of a default group followed by its child rows
DefaultGroup(parent_id, name, children) ==
    <<DefaultCategory(name, "EXPENSE", 0, TRUE)>>
    \o [i \in 1..Len(children) |-> DefaultCategory(children[i], "EXPENSE", parent_id, TRUE)]

\* the rows CategoryService.create_default_categories commits, in its order
default_categories ==
    << DefaultCategory("Salary", "INCOME", 0, TRUE),
       DefaultCategory("Other Income", "INCOME", 0, TRUE) >>
    \o DefaultGroup(3, "Housing", <<"Rent/Mortgage", "Utilities", "Internet/Phone",
                                    "Home Insurance", "Maintenance">>)
    \o DefaultGroup(9, "Transportation", <<"Public Transport", "Car Payment", "Fuel",
                                           "Car Insurance", "Car Maintenance">>)
    \o DefaultGroup(15, "Food", <<"Groceries", "Restaurants", "Coffee/Snacks",
                                  "Work Lunches">>)
    \o DefaultGroup(20, "Personal", <<"Healthcare", "Clothing", "Personal Care",
                                      "Entertainment", "Education">>)
    \o DefaultGroup(26, "Financial", <<"Bank Fees", "Insurance", "Loans",
                                       "Credit Card Fees">>)
    \o << DefaultCategory("Emergency Fund", "SAVING", 0, TRUE),
          DefaultCategory("Retirement Savings", "SAVING", 0, TRUE),
          DefaultCategory("Vacation Fund", "SAVING", 0, TRUE),
          DefaultCategory("House Down Payment", "SAVING", 0, TRUE),
          DefaultCategory("Investment Savings", "SAVING", 0, TRUE),
          DefaultCategory("TWINT Payments", "MANUAL_REVIEW", 0, FALSE),
          DefaultCategory("ATM Withdrawals", "MANUAL_REVIEW", 0, FALSE),
          DefaultCategory("Unknown Bank Transfers", "MANUAL_REVIEW", 0, FALSE),
          DefaultCategory("Manual Review", "MANUAL_REVIEW", 0, FALSE),
          DefaultCategory("Account Transfers", "TRANSFER", 0, TRUE) >>

\* the words the routed descriptions are made of: one per manual-review keyword
\* and two that carry none
RoutingWords ==
    { <<"T","W","I","N","T">>, <<"A","T","M">>,
      <<"G","e","l","d","a","u","t","o","m","a","t">>,
      <<"B","a","n","c","o","m","a","t">>,
      <<"T","r","a","n","s","f","e","r">>,
      <<"Ü","b","e","r","w","e","i","s","u","n","g">>,
      <<"V","i","r","e","m","e","n","t">>,
      <<"C","a","s","h"," ","W","i","t","h","d","r","a","w","a","l">>,
      <<"D","a","u","e","r","a","u","f","t","r","a","g">>,
      <<"C","o","o","p">>, <<"H","a","n","s">> }

RoutingDescriptions ==
    RoutingWords \cup {a \o <<" ">> \o b : a \in RoutingWords, b \in RoutingWords}

InitRouting ==
    /\ NormIdle
    /\ vendors = <<>> /\ txs = <<>> /\ transfers = {} /\ transfer_patterns = <<>>
    /\ transfer_settings = <<>> /\ last = <<>> /\ requests = 0 /\ procs = <<>>
    /\ category_rows = default_categories
    /\ kind = "routing"
    /\ sin \in [description : RoutingDescriptions]
    /\ sout = <<>>
    /\ pcS = "input"

\* the manual-review pre-check of categorize_new_transactions on one description
RouteDescription ==
    /\ pcS = "input" /\ kind = "routing"
    /\ sout' = [manual_review |-> is_manual_review_pattern(sin.description),
                category_id |-> IF is_manual_review_pattern(sin.description)
                                THEN get_manual_review_category(category_rows,
                                                                sin.description)
                                ELSE 0]
    /\ pcS' = "routed"
    /\ UNCHANGED <<kind, sin>>
    /\ UNCHANGED normVars
    /\ UNCHANGED storeVars

NextRouting == RouteDescription

SpecRouting == InitRouting /\ [][NextRouting]_vars

\* the names the keywords of a description send it to
RoutedNames(description) ==
    LET d == Lower(description)
    IN (IF Contains(d, <<"t","w","i","n","t">>) THEN {"TWINT Payments"} ELSE {})
       \cup (IF \/ Contains(d, <<"a","t","m">>)
                \/ Contains(d, <<"g","e","l","d","a","u","t","o","m","a","t">>)
                \/ Contains(d, <<"b","a","n","c","o","m","a","t">>)
             THEN {"ATM Withdrawals"} ELSE {})
       \cup (IF \/ Contains(d, <<"t","r","a","n","s","f","e","r">>)
                \/ Contains(d, <<"ü","b","e","r","w","e","i","s","u","n","g">>)
                \/ Contains(d, <<"v","i","r","e","m","e","n","t">>)
             THEN {"Unknown Bank Transfers"} ELSE {})

\* C21: with exactly the default categories, a manual-review description is
\* always routed to a category: to 'TWINT Payments', 'ATM Withdrawals' or
\* 'Unknown Bank Transfers' as its keyword says, and to 'Manual Review' when it
\* carries none of those keywords.
C21_DefaultRouting ==
    (pcS = "routed" /\ sout.manual_review) =>
        /\ sout.category_id \in DOMAIN category_rows
        /\ category_rows[sout.category_id].category_type = "MANUAL_REVIEW"
        /\ category_rows[sout.category_id].name \in
               IF RoutedNames(sin.description) = {} THEN {"Manual Review"}
               ELSE RoutedNames(sin.description)

-----------------------------------------------------------------------------
(* GET /transfers/detect over a store of a few recent bookings             *)

MaxDetectTx == 4
DetectTxIds == 1..MaxDetectTx

\* the bookings a detection run is asked about, dated from today backwards
DetectRows ==
    << TransferRow(-10000, Today, 1, DescTransferOut),
       TransferRow(10000, Today, 4, DescCoffee),
       TransferRow(10000, Today, 2, DescCoffee),
       TransferRow(10000, Today - 5, 2, DescCoffee),
       TransferRow(-9900, Today - 1, 3, DescCoffee),
       TransferRow(-10000, Today - 1, 1, DescCoffee),
       TransferRow(9800, Today - 2, 5, DescTransferOutCap),
       TransferRow(-10000, Today - 6, 3, DescTransferOut) >>

\* the lookback windows a caller may pass: Query(7, ge=1, le=30)
LookbackDays == {3, 7, 30}

InitDetect ==
    /\ NormIdle
    /\ ScoreIdle
    /\ category_rows = categories
    /\ vendors = <<>>
    /\ \E imported \in [DetectTxIds -> DOMAIN DetectRows] :
           /\ \A t \in DetectTxIds \ {1} : imported[t - 1] < imported[t]
           /\ txs = [t \in DetectTxIds |-> DetectRows[imported[t]]]
    /\ transfers = {}
    /\ transfer_patterns = <<>>
    /\ transfer_settings = NoSettings
    /\ procs = <<>>
    /\ requests = 0
    /\ last = [op |-> "none", raised |-> "none"]

\* GET /transfers/detect?days_lookback=..&include_pockets=..: the run over the
\* rows in the given order, the commits of the creations for the
\* from-transactions in failed failing; days_lookback is accepted and not
\* passed on, and the run with pockets ends in its logged error
DetectTransfersRequest(days_lookback, include_pockets, order, failed) ==
    LET found == IF include_pockets THEN <<>>
                 ELSE DetectFrom(txs, order, 1, {}, <<>>)
        store == AutoMatch(found, 1, failed, [transfers |-> transfers, txs |-> txs])
    IN /\ requests < MaxRequests
       /\ requests' = requests + 1
       /\ last' = [op |-> "detect", raised |-> "none", days_lookback |-> days_lookback,
                   potential_transfers |-> found]
       /\ transfers' = store.transfers
       /\ txs' = store.txs
       /\ UNCHANGED <<vendors, transfer_patterns, transfer_settings, procs>>
       /\ UNCHANGED normVars
       /\ UNCHANGED scoreVars
       /\ UNCHANGED category_rows

DetectTransfers ==
    /\ requests < MaxRequests
    /\ \E days_lookback \in LookbackDays, include_pockets \in BOOLEAN,
          order \in DateOrders(txs, Candidates(txs)) :
           \E failed \in SUBSET AutoMatched(order) :
               DetectTransfersRequest(days_lookback, include_pockets, order, failed)

NextDetect == DetectTransfers

SpecDetect == InitDetect /\ [][NextDetect]_vars

\* the two transactions of an emitted pair
PairOf(p) == {p.from_transaction_id, p.to_transaction_id}

\* C22: within one detection run every transaction appears in at most one
\* emitted pair, auto-matched or suggested.
C22_EmittedPairsDisjoint ==
    last.op = "detect" =>
        \A k, l \in DOMAIN last.potential_transfers :
            k # l => PairOf(last.potential_transfers[k])
                         \cap PairOf(last.potential_transfers[l]) = {}

\* a run has emitted a pair and left out a transaction that pairs with one of
\* the two it claimed
C22_Witness ==
    /\ last.op = "detect"
    /\ \E k \in DOMAIN last.potential_transfers :
           \E t \in DOMAIN txs \ UNION {PairOf(last.potential_transfers[l]) :
                                          l \in DOMAIN last.potential_transfers} :
               \E u \in PairOf(last.potential_transfers[k]) :
                   /\ is_potential_transfer_pair(txs[t], txs[u])
                   /\ calculate_confidence(AccountTypes, txs[t], txs[u]) >= 500

\* the position of transaction t in the order a run loaded
PositionIn(order, t) == CHOOSE i \in DOMAIN order : order[i] = t

\* C23: in a detection run the partner paired with a transaction is the
\* highest-scoring of its still-unclaimed candidate partners: no other
\* unclaimed candidate of that transaction scores strictly higher.
C23_BestPartnerChosen ==
    [][\A days_lookback \in LookbackDays, order \in DateOrders(txs, Candidates(txs)) :
           \A failed \in SUBSET AutoMatched(order) :
               DetectTransfersRequest(days_lookback, FALSE, order, failed) =>
                   LET found == last'.potential_transfers
                   IN \A k \in DOMAIN found :
                          LET claimed == UNION {PairOf(found[l]) : l \in 1..(k - 1)}
                              tx1 == CHOOSE t \in PairOf(found[k]) :
                                         \A u \in PairOf(found[k]) :
                                             PositionIn(order, t) <= PositionIn(order, u)
                          IN \A c \in Candidates(txs) \ (claimed \cup PairOf(found[k])) :
                                 is_potential_transfer_pair(txs[tx1], txs[c]) =>
                                     calculate_confidence(AccountTypes, txs[tx1], txs[c])
                                         <= found[k].confidence]_vars

\* C24: a detection run asked with a lookback window of days_lookback emits
\* only pairs that are opposite-signed, on different accounts and at most
\* days_lookback days apart, whatever value the caller passes.
C24_PairsWithinWindow ==
    last.op = "detect" =>
        \A k \in DOMAIN last.potential_transfers :
            LET from_tx == txs[last.potential_transfers[k].from_transaction_id]
                to_tx == txs[last.potential_transfers[k].to_transaction_id]
            IN /\ from_tx.amount < 0 /\ to_tx.amount > 0
               /\ from_tx.account_id # to_tx.account_id
               /\ DateDiff(from_tx, to_tx) <= last.days_lookback

-----------------------------------------------------------------------------
(* A confirm and its sweep in a store that also holds a row of another user *)

MaxConfirms == 1
UserIds == {1, 2}

\* a Transaction row with its user_id column
OwnedRow(user_id, row) ==
    [f \in DOMAIN row \cup {"user_id"} |-> IF f = "user_id" THEN user_id ELSE row[f]]

\* variant: the rows of every user are read
OwnedByAnyone(ts, user_id) == ts

\* filter(Transaction.user_id == self.user_id)
OwnedBy(ts, user_id) ==
    [t \in {u \in DOMAIN ts : ts[u].user_id = user_id} |-> ts[t]]

\* the rows an upload of the first user leaves: as imported, or as its
\* categorize_new pass left them
UploadedRows ==
    UNION {{OwnedRow(1, NewRow(TxDescriptions[d])),
            OwnedRow(1, CategorizedRow(categories, <<>>, NewRow(TxDescriptions[d]), 800))} :
              d \in DOMAIN TxDescriptions}

\* an order of the uploaded rows, to load a store up to the order of its rows
RowRank(row) ==
    2 * (CHOOSE d \in DOMAIN TxDescriptions : TxDescriptions[d] = row.description)
    + (IF row.confidence_score = -1 THEN 0 ELSE 1)

InitSweep ==
    /\ NormIdle
    /\ ScoreIdle
    /\ category_rows = categories
    /\ vendors = <<>>
    /\ \E own \in [TxIds \ {MaxTx} -> UploadedRows], d \in DOMAIN TxDescriptions :
           /\ \A t \in DOMAIN own \ {1} : RowRank(own[t - 1]) <= RowRank(own[t])
           /\ txs = [t \in TxIds |->
                        IF t \in DOMAIN own THEN own[t]
                        ELSE OwnedRow(2, NewRow(TxDescriptions[d]))]
    /\ transfers = {}
    /\ transfer_patterns = <<>>
    /\ transfer_settings = <<>>
    /\ procs = <<>>
    /\ requests = 0
    /\ last = [op |-> "none", raised |-> "none"]

\* PUT /transactions/{id}/categorize by the user user_id: the service reads
\* the rows of that user only
ConfirmAsRequest(user_id, transaction_id, category_id, vendor_name, commit_ok) ==
    LET plan == categorize_transaction_and_learn(category_rows, vendors,
                                                 OwnedBy(txs, user_id), transaction_id,
                                                 category_id, vendor_name)
        committed == plan.raised = "none" /\ commit_ok
        vendor_id == WrittenVendorId(vendors, plan.vendor_write)
    IN /\ requests < MaxConfirms
       /\ requests' = requests + 1
       /\ vendors' = IF committed
                     THEN CommitVendorWrite(vendors, plan.vendor_write, category_id)
                     ELSE vendors
       /\ txs' = IF committed
                 THEN CommitConfirmRows(txs, transaction_id, category_id,
                                        vendor_id, plan.swept)
                 ELSE txs
       /\ last' = [op |-> "confirm",
                   raised |-> IF plan.raised # "none" THEN plan.raised
                              ELSE IF commit_ok THEN "none" ELSE "StorageError"]
       /\ UNCHANGED <<transfers, transfer_patterns, transfer_settings, procs>>
       /\ UNCHANGED normVars
       /\ UNCHANGED scoreVars
       /\ UNCHANGED category_rows

\* the first user confirms one of the stored rows, also one that is not theirs
ConfirmAs ==
    \E transaction_id \in TxIds, category_id \in DOMAIN category_rows,
       vendor_name \in {<<>>, NameCoop}, commit_ok \in BOOLEAN :
        ConfirmAsRequest(1, transaction_id, category_id, vendor_name, commit_ok)

NextSweep == ConfirmAs

SpecSweep == InitSweep /\ [][NextSweep]_vars

\* the learned pattern of row t equals that of row u or is at least 0.9 similar
SweepSimilar(t, u) ==
    \/ NormalizedVendorOf[txs[u].description] = NormalizedVendorOf[txs[t].description]
    \/ PatternSimilarity(NormalizedVendorOf[txs[u].description],
                         NormalizedVendorOf[txs[t].description]) >= 900

-----------------------------------------------------------------------------
(* The amounts of the two transactions a Transfer links                    *)

\* the widest amount tolerance a creation path applies: 2.00 fixed or 20 %,
\* the bounds of _is_potential_transfer_pair
WithinWidestTolerance(from_tx, to_tx) ==
    LET amount_diff == Abs(Abs(from_tx.amount) - Abs(to_tx.amount))
        max_amount == Max(Abs(from_tx.amount), Abs(to_tx.amount))
    IN amount_diff <= 200 \/ amount_diff * 100 <= 20 * max_amount

\* C26: for every Transfer with two linked transactions, however it was
\* created, the absolute values of the two amounts are within the tolerance
\* used to create the transfer.
C26_LinkedAmountsWithinTolerance ==
    \A tr \in transfers :
        (tr.from_transaction_id \in DOMAIN txs /\ tr.to_transaction_id \in DOMAIN txs) =>
            WithinWidestTolerance(txs[tr.from_transaction_id], txs[tr.to_transaction_id])

-----------------------------------------------------------------------------
(* The Transfer rows and the is_transfer flags under every request that    *)
(* writes them                                                             *)

\* POST /transfers/{transfer_id}/confirm
ConfirmTransferRequest(transfer_id, commit_ok) ==
    LET found == {tr \in transfers : tr.id = transfer_id}
        confirmed == found # {} /\ commit_ok
    IN /\ requests < MaxRequests
       /\ requests' = requests + 1
       /\ transfers' = IF confirmed
                       THEN {IF tr \in found THEN [tr EXCEPT !.is_confirmed = TRUE] ELSE tr :
                                tr \in transfers}
                       ELSE transfers
       /\ txs' = IF confirmed
                 THEN [t \in DOMAIN txs |->
                          IF \E tr \in found : t \in {tr.from_transaction_id,
                                                      tr.to_transaction_id}
                          THEN [txs[t] EXCEPT !.is_transfer = TRUE] ELSE txs[t]]
                 ELSE txs
       /\ last' = [op |-> "confirm_transfer",
                   raised |-> IF found = {} THEN "404"
                              ELSE IF commit_ok THEN "none" ELSE "500"]
       /\ UNCHANGED <<vendors, transfer_patterns, transfer_settings, procs>>
       /\ UNCHANGED normVars
       /\ UNCHANGED scoreVars
       /\ UNCHANGED category_rows

ConfirmTransfer ==
    \E transfer_id \in {tr.id : tr \in transfers} \cup {0}, commit_ok \in BOOLEAN :
        ConfirmTransferRequest(transfer_id, commit_ok)

NextLinks ==
    \/ Detect
    \/ CreateManualTransfer
    \/ CreateTransferWithLearning
    \/ ConfirmTransfer
    \/ DeleteTransfer

SpecLinks == InitTransfer /\ [][NextLinks]_vars

\* the Transfers that reference transaction t
LinkedBy(t) ==
    {tr \in transfers : t \in {tr.from_transaction_id, tr.to_transaction_id}}

\* C27: after any sequence of auto-match, create_manual_transfer,
\* create_transfer_with_learning, confirm_transfer and delete_transfer a
\* transaction is flagged as a transfer if and only if some existing Transfer
\* references it.
C27_FlagIffLinked ==
    \A t \in DOMAIN txs : txs[t].is_transfer <=> LinkedBy(t) # {}

\* C28: after any sequential series of detection runs and manual creations no
\* transaction is referenced by more than one Transfer.
C28_AtMostOneTransferPerTransaction ==
    \A t \in DOMAIN txs : Cardinality(LinkedBy(t)) <= 1

-----------------------------------------------------------------------------
(* categorize_new_transactions as a CSV upload calls it: its own commit,   *)
(* made only when a row was categorized or routed, and the upload's        *)
(* closing commit on the same session                                      *)

InitUpload ==
    /\ NormIdle
    /\ ScoreIdle
    /\ category_rows = categories
    /\ vendors \in {<<>>, LearnedVendors}
    /\ \E imported \in [TxIds -> DOMAIN TxDescriptions] :
           /\ \A t \in TxIds \ {1} : imported[t - 1] <= imported[t]
           /\ txs = [t \in TxIds |-> NewRow(TxDescriptions[imported[t]])]
    /\ transfers = {}
    /\ transfer_patterns = <<>>
    /\ transfer_settings = <<>>
    /\ procs = <<>>
    /\ requests = 0
    /\ last = [op |-> "none", raised |-> "none"]

\* the rows as the loop of categorize_new_transactions leaves them in the session
PendingRows(cats, vs, ts) ==
    [t \in DOMAIN ts |->
        IF ts[t].category_id = 0 THEN CategorizedRow(cats, vs, ts[t], 800) ELSE ts[t]]

\* categorized_count > 0 or manual_review_count > 0
Counted(cats, vs, ts) ==
    \E t \in DOMAIN ts : ts[t].category_id = 0 /\ PendingRows(cats, vs, ts)[t].category_id # 0

\* the call and what follows it in process_csv.  The service commits only
\* when it counted a row, and a failure of that commit is raised to the upload,
\* which logs it; otherwise the pending rows wait for the upload's closing
\* commit, whose failure is logged too
CategorizeAfterUploadRequest(own_commit_ok, closing_commit_ok) ==
    LET counted == Counted(category_rows, vendors, txs)
        stored == IF counted THEN own_commit_ok ELSE closing_commit_ok
    IN /\ requests < MaxRequests
       /\ requests' = requests + 1
       /\ txs' = IF stored THEN PendingRows(category_rows, vendors, txs) ELSE txs
       /\ last' = [op |-> "categorize_new",
                   raised |-> IF counted /\ ~own_commit_ok THEN "StorageError" ELSE "none"]
       /\ UNCHANGED <<vendors, transfers, transfer_patterns, transfer_settings, procs>>
       /\ UNCHANGED normVars
       /\ UNCHANGED scoreVars
       /\ UNCHANGED category_rows

CategorizeAfterUpload ==
    \E own_commit_ok \in BOOLEAN, closing_commit_ok \in BOOLEAN :
        CategorizeAfterUploadRequest(own_commit_ok, closing_commit_ok)

NextUpload == CategorizeAfterUpload \/ ConfirmGenerated

SpecUpload == InitUpload /\ [][NextUpload]_vars

\* C29: after categorize_new_transactions returns, every processed row that
\* was neither auto-categorized nor routed has needs_review = true and its
\* confidence in the stored rows, also when no row of the batch was
\* auto-categorized or routed.
C29_ReviewFlagStored ==
    [][\A own_commit_ok \in BOOLEAN, closing_commit_ok \in BOOLEAN :
          (CategorizeAfterUploadRequest(own_commit_ok, closing_commit_ok)
               /\ last'.raised = "none") =>
              \A t \in DOMAIN txs :
                  LET row == PendingRows(category_rows, vendors, txs)[t]
                  IN (txs[t].category_id = 0 /\ row.category_id = 0) =>
                         /\ txs'[t].needs_review
                         /\ txs'[t].confidence_score = row.confidence_score]_vars

-----------------------------------------------------------------------------
(* The merge branch of learn_from_manual_transfer and the store            *)

\* C30: when learn merges a confirmed transfer into an existing pattern, the
\* incremented times_matched is in the stored rows when learn has returned,
\* as a newly created pattern is.
C30_MergeCommitted ==
    [][\A ids \in PatternMatchInputs, outcome \in CreationOutcomes :
          (/\ ids[1] \in DOMAIN txs /\ ids[2] \in DOMAIN txs
           /\ outcome[1] /\ outcome[2] /\ outcome[3]
           /\ CreateTransferWithLearningRequest(ids[1], ids[2], outcome[1], outcome[2],
                                                outcome[3])
           /\ find_similar_pattern(transfer_patterns,
                                   AccountPatternOf[txs[ids[1]].account_id],
                                   AccountPatternOf[txs[ids[2]].account_id]) # 0)
              => LET p == find_similar_pattern(transfer_patterns,
                              AccountPatternOf[txs[ids[1]].account_id],
                              AccountPatternOf[txs[ids[2]].account_id])
                 IN /\ Len(transfer_patterns') = Len(transfer_patterns)
                    /\ transfer_patterns'[p].times_matched
                           = transfer_patterns[p].times_matched + 1]_vars

====
